---- MODULE Spec2Model ----
(***************************************************************************)
(* llama-manager: a supervisor for llama.cpp server processes.             *)
(*                                                                         *)
(* The module models nine parts of the program, each with its own           *)
(* specification over its own group of variables:                          *)
(*   SpecRing      the ring log buffer            (instance.go)            *)
(*   SpecStore     the config store's instance list (config.go)            *)
(*   SpecHTTP      loadConfig and the config handlers of the control plane *)
(*   SpecServe     the origin check in front of the router                 *)
(*   SpecArgs      the command line Instance.Start builds                  *)
(*   SpecSettings  UpdateSettings, config import and the file they write   *)
(*   SpecDownload  the single-slot download manager (config.go)            *)
(*   Spec          one supervised instance: Instance, Manager, the         *)
(*                 supervisor loop, health-probe loops, exit observers     *)
(*                 and operator actions (instance.go, manager.go)          *)
(*   SpecLocks     the order in which the tasks take the five mutexes      *)
(***************************************************************************)
EXTENDS Integers, Sequences, FiniteSets, TLC

VARIABLES
    \* ringBuffer (instance.go:372)
    lines, size, pos, full, appended, snapshot,
    \* Config (config.go:13), its backing file, Manager index, HTTP response
    Instances, cfgFile, loaded, mInstances, byName, httpStatus, cfgErr,
    \* Config's scalar settings, their keys in the file, the latest
    \* UpdateSettings argument and its result
    settings, setFile, setReq, setErr,
    \* the request WebServer.ServeHTTP was last called with
    req,
    \* what Instance.Start reads to build a command line, and the command
    launch,
    \* DownloadManager (config.go:336)
    active, jobs, dlErr,
    \* Instance (instance.go:28), Manager (manager.go:9), tasks
    state, cmd, stopCh, restartCount, lastError, closes, proc,
    managed, MaxRestarts, sup, hl, op, shut,
    \* the mutexes (holder and readers of each) and the tasks taking them
    mu, task

rbVars  == <<lines, size, pos, full, appended, snapshot>>
cfgVars == <<Instances, cfgFile, loaded, mInstances, byName, httpStatus, cfgErr>>
setVars == <<settings, setFile, setReq, setErr>>
reqVars == <<req>>
argVars == <<launch>>
dlVars  == <<active, jobs, dlErr>>
instVars == <<state, cmd, stopCh, restartCount, lastError, closes>>
supVars == <<proc, managed, MaxRestarts, sup, hl, op, shut>>
lockVars == <<mu, task>>
vars == <<rbVars, cfgVars, setVars, reqVars, argVars, dlVars, instVars, supVars, lockVars>>

\* The last n elements of sequence s, in order.
LastN(s, n) == SubSeq(s, Len(s) - n + 1, Len(s))

(***************************************************************************)
(* Ring log buffer                                                         *)
(***************************************************************************)

\* Largest capacity and longest run of appends explored.
MaxCap == 3
MaxAdds == 5
LogLines == {"x", "y"}

\* newRingBuffer(size): a zeroed array of `size` strings, pos 0, not full.
newRingBuffer(sz) ==
    /\ lines = [i \in 0 .. sz - 1 |-> ""]
    /\ size = sz
    /\ pos = 0
    /\ full = FALSE

\* Add's index arithmetic wrapping one slot before the end of the array.
NextPosEarly(p, sz) == IF p + 2 >= sz THEN 0 ELSE p + 1

\* ringBuffer.Add: the position after a write at p.
NextPos(p, sz) == IF p + 1 >= sz THEN 0 ELSE p + 1

\* ringBuffer.Add(line)
Add(line) ==
    /\ pos \in DOMAIN lines
    /\ lines' = [lines EXCEPT ![pos] = line]
    /\ pos' = NextPos(pos, size)
    /\ full' = (full \/ pos + 1 >= size)
    /\ UNCHANGED size

\* ringBuffer.Lines(): a new sequence; the first copy takes lines[pos:], the
\* second lines[:pos].
Lines ==
    IF ~full
    THEN [i \in 1 .. pos |-> lines[i - 1]]
    ELSE [i \in 1 .. size |->
            IF i - 1 < size - pos THEN lines[pos + i - 1]
            ELSE lines[i - 1 - (size - pos)]]

RingInit ==
    /\ \E sz \in 1 .. MaxCap : newRingBuffer(sz)
    /\ appended = <<>>
    /\ snapshot = <<>>

RingParked ==
    /\ newRingBuffer(1)
    /\ appended = <<>>
    /\ snapshot = <<>>

\* captureOutput appends one scanned line.
RingAdd ==
    /\ Len(appended) < MaxAdds
    /\ \E line \in LogLines :
        /\ Add(line)
        /\ appended' = Append(appended, line)
    /\ UNCHANGED snapshot

\* Instance.Logs takes a snapshot.
RingLines ==
    /\ snapshot' = Lines
    /\ UNCHANGED <<lines, size, pos, full, appended>>

(***************************************************************************)
(* Config store: the instance list, its file, and the manager's index      *)
(***************************************************************************)

\* Longest instance list explored.
MaxInst == 3

\* Longest instance list explored beside the settings.
MaxSetInst == 1

ConfNames == {"a", "b", "c"}
ConfPorts == {9090, 9091, 9092}

\* InstanceConf (config.go:32); the optional overrides play no part in the
\* store's rules and are left out.
InstanceConfs == [Name : ConfNames, Model : {"m.gguf"}, Port : ConfPorts, GPUIDs : {<<0>>}]

UniqueNames(list) ==
    \A i, j \in 1 .. Len(list) : i # j => list[i].Name # list[j].Name

UniquePorts(list) ==
    \A i, j \in 1 .. Len(list) : i # j => list[i].Port # list[j].Port

\* A search that stops at the first entry whatever its name.
IndexOfFirst(list, name) == IF Len(list) > 0 THEN 1 ELSE 0

\* Index of the first entry named `name`, 0 when there is none.
IndexOfName(list, name) ==
    IF \E i \in 1 .. Len(list) : list[i].Name = name
    THEN CHOOSE i \in 1 .. Len(list) :
            /\ list[i].Name = name
            /\ \A k \in 1 .. i - 1 : list[k].Name # name
    ELSE 0

RemoveAt(list, i) == SubSeq(list, 1, i - 1) \o SubSeq(list, i + 1, Len(list))

\* AddInstance's loop with the port comparison left out.
AddInstanceErrNameOnly(list, ic) ==
    IF \E i \in 1 .. Len(list) : list[i].Name = ic.Name
    THEN "duplicate instance name"
    ELSE ""

\* Config.AddInstance, the loop: the error of the first entry that clashes,
\* the name compared before the port.
AddInstanceErr(list, ic) ==
    LET clash(i) == list[i].Name = ic.Name \/ list[i].Port = ic.Port IN
    IF \E i \in 1 .. Len(list) : clash(i)
    THEN LET f == CHOOSE i \in 1 .. Len(list) :
                    clash(i) /\ \A k \in 1 .. i - 1 : ~clash(k)
         IN IF list[f].Name = ic.Name THEN "duplicate instance name"
            ELSE "duplicate port"
    ELSE ""

\* Config.UpdateInstance, the loops: entry i is the first named `name`; the
\* error of the first other entry that clashes, the port compared first.
UpdateInstanceErr(list, name, ic) ==
    LET i == IndexOfName(list, name)
        clash(j) == j # i /\ (list[j].Port = ic.Port \/ list[j].Name = ic.Name)
    IN  IF i = 0 THEN "not found"
        ELSE IF \E j \in 1 .. Len(list) : clash(j)
        THEN LET f == CHOOSE j \in 1 .. Len(list) :
                        clash(j) /\ \A k \in 1 .. j - 1 : ~clash(k)
             IN IF list[f].Port = ic.Port THEN "duplicate port"
                ELSE "duplicate instance name"
        ELSE ""

\* yaml.Marshal(cfg): instances are written in the list form only.
Marshal(bin, list) ==
    [ok |-> TRUE, server_bin |-> bin,
     instances |-> [i \in 1 .. Len(list) |->
        [name |-> list[i].Name, model |-> list[i].Model, port |-> list[i].Port,
         gpu_ids |-> list[i].GPUIDs, gpu_id |-> ""]]]

ServerBin == "llama-server"

\* Config.saveLocked: the file after the write, which may fail.
saveLocked(list, writeOk) ==
    IF writeOk THEN Marshal(settings.ServerBin, list) ELSE cfgFile

\* NewManager / Manager.AddInstance: append to the slice, index by name.
MgrAdd(sl, idx, name) == [sl |-> Append(sl, name), idx |-> idx \cup {name}]

\* Manager.RemoveInstance: nothing when the name is not indexed; else drop it
\* from the index and drop the first slice entry of that name.
MgrRemove(sl, idx, name) ==
    IF name \notin idx THEN [sl |-> sl, idx |-> idx]
    ELSE LET hit == {i \in 1 .. Len(sl) : sl[i] = name}
             f == IF hit = {} THEN 0
                  ELSE CHOOSE i \in hit : \A k \in hit : i <= k
         IN [sl |-> IF f = 0 THEN sl ELSE RemoveAt(sl, f), idx |-> idx \ {name}]

NamesOf(list) == [i \in 1 .. Len(list) |-> list[i].Name]

\* Config.AddInstance(ic)
CfgAddInstance(ic, writeOk) ==
    LET e == AddInstanceErr(Instances, ic) IN
    IF e # ""
    THEN /\ cfgErr' = e
         /\ UNCHANGED <<Instances, cfgFile>>
    ELSE /\ Instances' = Append(Instances, ic)
         /\ cfgFile' = saveLocked(Instances', writeOk)
         /\ cfgErr' = IF writeOk THEN "" ELSE "write failed"

\* Config.UpdateInstance(name, ic)
CfgUpdateInstance(name, ic, writeOk) ==
    LET e == UpdateInstanceErr(Instances, name, ic) IN
    IF e # ""
    THEN /\ cfgErr' = e
         /\ UNCHANGED <<Instances, cfgFile>>
    ELSE /\ Instances' = [Instances EXCEPT ![IndexOfName(Instances, name)] = ic]
         /\ cfgFile' = saveLocked(Instances', writeOk)
         /\ cfgErr' = IF writeOk THEN "" ELSE "write failed"

\* Config.DeleteInstance(name)
CfgDeleteInstance(name, writeOk) ==
    LET i == IndexOfName(Instances, name) IN
    IF i = 0
    THEN /\ cfgErr' = "not found"
         /\ UNCHANGED <<Instances, cfgFile>>
    ELSE /\ Instances' = RemoveAt(Instances, i)
         /\ cfgFile' = saveLocked(Instances', writeOk)
         /\ cfgErr' = IF writeOk THEN "" ELSE "write failed"

\* Instance lists with distinct names and distinct ports, up to MaxInst long.
RECURSIVE UniqueLists(_)
UniqueLists(n) ==
    IF n = 0 THEN {<<>>}
    ELSE LET shorter == UniqueLists(n - 1) IN
         shorter \cup
         {Append(l, ic) : l \in {s \in shorter : Len(s) = n - 1}, ic \in InstanceConfs}

\* A store holding distinct names and ports; the manager is left out of the
\* store's own specification.
StoreInit ==
    /\ Instances \in {l \in UniqueLists(MaxInst) : UniqueNames(l) /\ UniquePorts(l)}
    /\ cfgFile = Marshal(ServerBin, Instances)
    /\ loaded = TRUE
    /\ mInstances = <<>>
    /\ byName = {}
    /\ httpStatus = 0
    /\ cfgErr = ""

CfgParked ==
    /\ Instances = <<>>
    /\ cfgFile = Marshal(ServerBin, <<>>)
    /\ loaded = TRUE
    /\ mInstances = <<>>
    /\ byName = {}
    /\ httpStatus = 0
    /\ cfgErr = ""

StoreAdd ==
    /\ Len(Instances) < MaxInst
    /\ \E ic \in InstanceConfs, writeOk \in BOOLEAN : CfgAddInstance(ic, writeOk)
    /\ UNCHANGED <<loaded, mInstances, byName, httpStatus>>

StoreUpdate ==
    /\ \E name \in ConfNames, ic \in InstanceConfs, writeOk \in BOOLEAN :
        CfgUpdateInstance(name, ic, writeOk)
    /\ UNCHANGED <<loaded, mInstances, byName, httpStatus>>

StoreDelete ==
    /\ \E name \in ConfNames, writeOk \in BOOLEAN : CfgDeleteInstance(name, writeOk)
    /\ UNCHANGED <<loaded, mInstances, byName, httpStatus>>

(***************************************************************************)
(* loadConfig and the control plane's config handlers                      *)
(***************************************************************************)

\* Longest instance sequence of a config file read at startup.
MaxYaml == 2

\* strconv.Atoi on the scalar of a legacy gpu_id key.
AtoiOk(s) == s \in {"0", "1"}
Atoi(s) == IF s = "0" THEN 0 ELSE 1

\* An instance mapping of the YAML file: gpu_ids is the list key (empty when
\* absent), gpu_id the legacy scalar key ("" when absent).
YamlNodes ==
    {n \in [name : {"a", "b"}, model : {"m.gguf"}, port : {9090, 9091},
             gpu_ids : {<<>>, <<0>>}, gpu_id : {"", "1", "x"}] :
        Len(n.gpu_ids) > 0 => n.gpu_id = ""}

RECURSIVE SeqsUpTo(_, _)
SeqsUpTo(S, n) ==
    IF n = 0 THEN {<<>>}
    ELSE LET shorter == SeqsUpTo(S, n - 1) IN
         shorter \cup {Append(l, x) : l \in {s \in shorter : Len(s) = n - 1}, x \in S}

\* What os.ReadFile and the YAML parser can be given: an unreadable or
\* unparseable file, or a parsed document.
YamlFiles ==
    {[ok |-> FALSE, server_bin |-> "", instances |-> <<>>]} \cup
    [ok : {TRUE}, server_bin : {"", ServerBin}, instances : SeqsUpTo(YamlNodes, MaxYaml)]

\* InstanceConf.UnmarshalYAML, the error: only the legacy key can fail, and it
\* is read only when gpu_ids is empty.
UnmarshalErr(node) ==
    Len(node.gpu_ids) = 0 /\ node.gpu_id # "" /\ ~AtoiOk(node.gpu_id)

\* InstanceConf.UnmarshalYAML, the value.
UnmarshalYAML(node) ==
    [Name |-> node.name, Model |-> node.model, Port |-> node.port,
     GPUIDs |-> IF Len(node.gpu_ids) = 0 /\ node.gpu_id # ""
                THEN <<Atoi(node.gpu_id)>> ELSE node.gpu_ids]

\* loadConfig, the error: read, parse, then server_bin must be non-empty.
loadConfigErr(data) ==
    IF ~data.ok THEN "reading config"
    ELSE IF \E i \in 1 .. Len(data.instances) : UnmarshalErr(data.instances[i])
    THEN "parsing config"
    ELSE IF data.server_bin = "" THEN "server_bin is required"
    ELSE ""

HTTPInit ==
    /\ Instances = <<>>
    /\ cfgFile \in YamlFiles
    /\ loaded = FALSE
    /\ mInstances = <<>>
    /\ byName = {}
    /\ httpStatus = 0
    /\ cfgErr = ""

\* main: loadConfig, then NewManager over the loaded instances. A load error
\* ends the process (log.Fatalf).
LoadConfig ==
    /\ ~loaded
    /\ cfgErr = ""
    /\ LET e == loadConfigErr(cfgFile) IN
       IF e # ""
       THEN /\ cfgErr' = e
            /\ UNCHANGED <<Instances, loaded, mInstances, byName>>
       ELSE /\ Instances' = [i \in 1 .. Len(cfgFile.instances) |->
                                UnmarshalYAML(cfgFile.instances[i])]
            /\ loaded' = TRUE
            /\ mInstances' = NamesOf(Instances')
            /\ byName' = {Instances'[i].Name : i \in 1 .. Len(Instances')}
            /\ cfgErr' = ""
    /\ UNCHANGED <<cfgFile, httpStatus>>

\* Decoded JSON bodies of POST and PUT; a missing field decodes to its zero
\* value.
BodyConfs ==
    [Name : {"", "a", "b"}, Model : {"", "m.gguf"},
     Port : {0, 9090, 9091}, GPUIDs : {<<>>, <<0>>}]

\* The handlers' checks of a decoded body: name, model and port required, then
\* at least one device id.
BodyStatus(ic) ==
    IF ic.Name = "" \/ ic.Model = "" \/ ic.Port = 0 THEN 400
    ELSE IF Len(ic.GPUIDs) = 0 THEN 400
    ELSE 200

\* WebServer.handleConfigInstances, POST
PostConfigInstance ==
    /\ loaded
    /\ Len(Instances) < MaxInst
    /\ \/ /\ httpStatus' = 400     \* the body is not JSON
          /\ UNCHANGED <<Instances, cfgFile, cfgErr, mInstances, byName>>
       \/ \E ic \in BodyConfs :
            IF BodyStatus(ic) # 200
            THEN /\ httpStatus' = 400
                 /\ UNCHANGED <<Instances, cfgFile, cfgErr, mInstances, byName>>
            ELSE \E writeOk \in BOOLEAN :
                 /\ CfgAddInstance(ic, writeOk)
                 /\ IF cfgErr' # ""
                    THEN /\ httpStatus' = 409
                         /\ UNCHANGED <<mInstances, byName>>
                    ELSE /\ httpStatus' = 200
                         /\ mInstances' = MgrAdd(mInstances, byName, ic.Name).sl
                         /\ byName' = MgrAdd(mInstances, byName, ic.Name).idx
    /\ UNCHANGED loaded

\* WebServer.handleConfigInstanceAction, PUT: the runtime instance is removed
\* before the store is updated.
PutConfigInstance ==
    /\ loaded
    /\ \/ /\ httpStatus' = 400     \* the body is not JSON
          /\ UNCHANGED <<Instances, cfgFile, cfgErr, mInstances, byName>>
       \/ \E name \in {"a", "b"}, ic \in BodyConfs :
            IF BodyStatus(ic) # 200
            THEN /\ httpStatus' = 400
                 /\ UNCHANGED <<Instances, cfgFile, cfgErr, mInstances, byName>>
            ELSE \E writeOk \in BOOLEAN :
                 LET rm == MgrRemove(mInstances, byName, name) IN
                 /\ CfgUpdateInstance(name, ic, writeOk)
                 /\ IF cfgErr' # ""
                    THEN /\ httpStatus' = 400
                         /\ mInstances' = rm.sl
                         /\ byName' = rm.idx
                    ELSE /\ httpStatus' = 200
                         /\ mInstances' = MgrAdd(rm.sl, rm.idx, ic.Name).sl
                         /\ byName' = MgrAdd(rm.sl, rm.idx, ic.Name).idx
    /\ UNCHANGED loaded

\* WebServer.handleConfigInstanceAction, DELETE
DeleteConfigInstance ==
    /\ loaded
    /\ \E name \in {"a", "b"}, writeOk \in BOOLEAN :
        LET rm == MgrRemove(mInstances, byName, name) IN
        /\ CfgDeleteInstance(name, writeOk)
        /\ httpStatus' = IF cfgErr' # "" THEN 404 ELSE 200
        /\ mInstances' = rm.sl
        /\ byName' = rm.idx
    /\ UNCHANGED loaded

(***************************************************************************)
(* WebServer.ServeHTTP: the origin check in front of the router            *)
(***************************************************************************)

Methods == {"GET", "HEAD", "OPTIONS", "POST", "PUT", "DELETE"}
Hosts == {"mgr:8080"}
Origins == {"", "http://mgr:8080", "https://mgr:8080", "http://evil.example"}
Paths == {"/api/config/instances", "/api/config/instances/"}

Requests == [method : Methods, origin : Origins, host : Hosts, path : Paths]

\* Before the first request.
NoRequest == [method |-> "", origin |-> "", host |-> "", path |-> ""]

\* An origin check that does not look at the method.
OriginMismatchAnyMethod(r) ==
    /\ r.origin # ""
    /\ r.origin # "http://" \o r.host
    /\ r.origin # "https://" \o r.host

\* ServeHTTP's condition for answering 403 (part_003:86-94).
OriginMismatch(r) ==
    /\ r.method \notin {"GET", "HEAD", "OPTIONS"}
    /\ r.origin # ""
    /\ r.origin # "http://" \o r.host
    /\ r.origin # "https://" \o r.host

\* http.Error(w, "forbidden: origin mismatch", 403) and return.
Forbidden ==
    /\ httpStatus' = 403
    /\ UNCHANGED <<Instances, cfgFile, loaded, mInstances, byName, cfgErr>>

\* handleConfigInstances, GET: the list is encoded; nothing is written.
GetConfigInstances ==
    /\ httpStatus' = 200
    /\ UNCHANGED <<Instances, cfgFile, loaded, mInstances, byName, cfgErr>>

\* The handlers' default branch.
MethodNotAllowed ==
    /\ httpStatus' = 405
    /\ UNCHANGED <<Instances, cfgFile, loaded, mInstances, byName, cfgErr>>

\* ws.mux.ServeHTTP on the two config routes.
Mux(r) ==
    IF r.path = "/api/config/instances"
    THEN IF r.method = "GET" THEN GetConfigInstances
         ELSE IF r.method = "POST" THEN PostConfigInstance
         ELSE MethodNotAllowed
    ELSE IF r.method = "PUT" THEN PutConfigInstance
         ELSE IF r.method = "DELETE" THEN DeleteConfigInstance
         ELSE MethodNotAllowed

\* WebServer.ServeHTTP
ServeHTTP ==
    \E r \in Requests :
        /\ req' = r
        /\ IF OriginMismatch(r) THEN Forbidden ELSE Mux(r)

ReqParked == req = NoRequest

(***************************************************************************)
(* Instance.Start: the argument vector and the environment of the child    *)
(***************************************************************************)

\* Longest device list explored.
MaxGPUs == 3

Backends == {"vulkan", "cuda", "rocm", "rocm_rocr", "metal", "opencl"}
DeviceIds == {0, 1}
DeviceLists == {l \in SeqsUpTo(DeviceIds, MaxGPUs) : Len(l) >= 1}

\* strconv.Itoa on the small integers explored.
Itoa(n) ==
    CASE n = 0 -> "0"
      [] n = 1 -> "1"
      [] n = 2 -> "2"
      [] OTHER -> "3"

\* strings.Join(parts, ",")
RECURSIVE Join(_)
Join(parts) ==
    IF Len(parts) = 0 THEN ""
    ELSE IF Len(parts) = 1 THEN parts[1]
    ELSE parts[1] \o "," \o Join(Tail(parts))

\* intsToStrings (instance.go:407)
intsToStrings(ids) == [i \in 1 .. Len(ids) |-> Itoa(ids[i])]

\* A backend switch in which metal falls into the default case.
GPUEnvVarNoMetal(backend) ==
    CASE backend = "cuda" -> "CUDA_VISIBLE_DEVICES"
      [] backend = "rocm" -> "HIP_VISIBLE_DEVICES"
      [] backend = "rocm_rocr" -> "ROCR_VISIBLE_DEVICES"
      [] OTHER -> "GGML_VK_VISIBLE_DEVICES"

\* Config.GPUEnvVar (config.go:67)
GPUEnvVar(backend) ==
    CASE backend = "cuda" -> "CUDA_VISIBLE_DEVICES"
      [] backend = "rocm" -> "HIP_VISIBLE_DEVICES"
      [] backend = "rocm_rocr" -> "ROCR_VISIBLE_DEVICES"
      [] backend = "metal" -> ""
      [] OTHER -> "GGML_VK_VISIBLE_DEVICES"

\* fmt.Sprintf("%.2f", 1.0/float64(n)) for the list lengths explored.
Ratio(n) ==
    CASE n = 1 -> "1.00"
      [] n = 2 -> "0.50"
      [] n = 3 -> "0.33"
      [] n = 4 -> "0.25"
      [] n = 5 -> "0.20"
      [] n = 6 -> "0.17"
      [] n = 7 -> "0.14"
      [] OTHER -> "0.12"

\* Instance.Start, the -mg / --tensor-split arguments (instance.go:143-155).
GPUArgs(gpuEnv, ids, mainGPU) ==
    IF gpuEnv = "" THEN <<>>
    ELSE IF Len(ids) > 1
    THEN <<"-mg", "0", "--tensor-split", Join([i \in 1 .. Len(ids) |-> Ratio(Len(ids))])>>
    ELSE <<"-mg", Itoa(mainGPU)>>

\* Instance.Start, the whole argument vector (instance.go:131-162); port,
\* host, ngl and context length are the fixed values of the runs.
StartArgs(in) ==
    (IF in.model = "m.gguf" THEN <<"-m", in.model>> ELSE <<"-hf", in.model>>)
    \o <<"--port", "9090", "--host", "0.0.0.0", "-ngl", "99", "-c", "16384">>
    \o GPUArgs(GPUEnvVar(in.backend), in.ids, in.mainGPU)
    \o (IF in.cacheK # "" THEN <<"-ctk", in.cacheK>> ELSE <<>>)
    \o (IF in.cacheV # "" THEN <<"-ctv", in.cacheV>> ELSE <<>>)
    \o <<"--metrics">>

\* Instance.Start, the variable added to the child's environment
\* (instance.go:165-168); none when the backend has no such variable.
StartEnv(in) ==
    IF GPUEnvVar(in.backend) = "" THEN [name |-> "", value |-> ""]
    ELSE [name |-> GPUEnvVar(in.backend), value |-> Join(intsToStrings(in.ids))]

LaunchInputs ==
    [backend : Backends, ids : DeviceLists, mainGPU : {0, 1},
     model : {"m.gguf", "org/repo"}, cacheK : {"", "q8_0"}, cacheV : {"q8_0"}]

\* exec.Command(serverBin, args...) with its environment.
BuildCommand ==
    /\ ~launch.built
    /\ launch' = [launch EXCEPT !.args = StartArgs(launch.in),
                                !.env = StartEnv(launch.in),
                                !.built = TRUE]

ArgInit ==
    \E in \in LaunchInputs :
        launch = [in |-> in, args |-> <<>>, env |-> [name |-> "", value |-> ""],
                  built |-> FALSE]

ArgParked ==
    launch = [in |-> [backend |-> "vulkan", ids |-> <<0>>, mainGPU |-> 0,
                      model |-> "m.gguf", cacheK |-> "q8_0", cacheV |-> "q8_0"],
              args |-> <<>>, env |-> [name |-> "", value |-> ""], built |-> FALSE]

(***************************************************************************)
(* Settings: UpdateSettings, config import, and the scalar keys of the     *)
(* config file                                                             *)
(***************************************************************************)

\* time.ParseDuration on the spellings explored, in milliseconds; "x" and
\* every other text fail to parse.
DurationTexts == {"0s", "-1s", "1s", "1.5s", "1500ms", "5s", "30s"}
ParseDurationOk(str) == str \in DurationTexts
ParseDuration(str) ==
    CASE str = "0s" -> 0
      [] str = "-1s" -> 0 - 1000
      [] str = "1s" -> 1000
      [] str = "1.5s" -> 1500
      [] str = "1500ms" -> 1500
      [] str = "5s" -> 5000
      [] OTHER -> 30000

\* A formatting that drops the fraction of a second.
DurationStringWhole(d) ==
    CASE d = 0 -> "0s"
      [] d = 0 - 1000 -> "-1s"
      [] d = 1000 -> "1s"
      [] d = 1500 -> "1s"
      [] d = 5000 -> "5s"
      [] OTHER -> "30s"

\* time.Duration.String (duration.MarshalYAML, config.go:99)
DurationString(d) ==
    CASE d = 0 -> "0s"
      [] d = 0 - 1000 -> "-1s"
      [] d = 1000 -> "1s"
      [] d = 1500 -> "1.5s"
      [] d = 5000 -> "5s"
      [] OTHER -> "30s"

\* YAML text of an int and back, on the values explored.
IntText(n) ==
    CASE n = 0 - 1 -> "-1"
      [] n = 0 -> "0"
      [] n = 1 -> "1"
      [] n = 10 -> "10"
      [] n = 99 -> "99"
      [] n = 4096 -> "4096"
      [] n = 8080 -> "8080"
      [] n = 9000 -> "9000"
      [] OTHER -> "16384"
TextInt(t) ==
    CASE t = "-1" -> 0 - 1
      [] t = "0" -> 0
      [] t = "1" -> 1
      [] t = "10" -> 10
      [] t = "99" -> 99
      [] t = "4096" -> 4096
      [] t = "8080" -> 8080
      [] t = "9000" -> 9000
      [] OTHER -> 16384

\* A key that the file does not have.
Absent == "~"

\* The Config literal of loadConfig (config.go:126-139), before the file is
\* applied to it.
DefaultSettings ==
    [ServerBin |-> "", RestartDelay |-> 5000, MaxRestarts |-> 10,
     HealthCheckInterval |-> 30000, GPUBackend |-> "vulkan",
     NGL |-> 99, MainGPU |-> 0, ContextLength |-> 16384,
     ManagerPort |-> 8080, Host |-> "0.0.0.0",
     CacheTypeK |-> "q8_0", CacheTypeV |-> "q8_0"]

\* var test Config (part_003:485): every field zero.
ZeroSettings ==
    [ServerBin |-> "", RestartDelay |-> 0, MaxRestarts |-> 0,
     HealthCheckInterval |-> 0, GPUBackend |-> "",
     NGL |-> 0, MainGPU |-> 0, ContextLength |-> 0,
     ManagerPort |-> 0, Host |-> "", CacheTypeK |-> "", CacheTypeV |-> ""]

\* yaml.Marshal(cfg), the scalar keys other than server_bin.
MarshalSettings(st) ==
    [restart_delay |-> DurationString(st.RestartDelay),
     max_restarts |-> IntText(st.MaxRestarts),
     health_check_interval |-> DurationString(st.HealthCheckInterval),
     gpu_backend |-> st.GPUBackend,
     ngl |-> IntText(st.NGL),
     main_gpu |-> IntText(st.MainGPU),
     context_length |-> IntText(st.ContextLength),
     manager_port |-> IntText(st.ManagerPort),
     host |-> st.Host,
     cache_type_k |-> st.CacheTypeK,
     cache_type_v |-> st.CacheTypeV]

\* yaml.Unmarshal(data, cfg) on the scalar keys: a key the file has replaces
\* the field of `base`, an absent key leaves it.
UnmarshalSettings(bin, f, base) ==
    [ServerBin |-> IF bin = "" THEN base.ServerBin ELSE bin,
     RestartDelay |->
        IF f.restart_delay = Absent THEN base.RestartDelay
        ELSE ParseDuration(f.restart_delay),
     MaxRestarts |->
        IF f.max_restarts = Absent THEN base.MaxRestarts ELSE TextInt(f.max_restarts),
     HealthCheckInterval |->
        IF f.health_check_interval = Absent THEN base.HealthCheckInterval
        ELSE ParseDuration(f.health_check_interval),
     GPUBackend |-> IF f.gpu_backend = Absent THEN base.GPUBackend ELSE f.gpu_backend,
     NGL |-> IF f.ngl = Absent THEN base.NGL ELSE TextInt(f.ngl),
     MainGPU |-> IF f.main_gpu = Absent THEN base.MainGPU ELSE TextInt(f.main_gpu),
     ContextLength |->
        IF f.context_length = Absent THEN base.ContextLength
        ELSE TextInt(f.context_length),
     ManagerPort |->
        IF f.manager_port = Absent THEN base.ManagerPort ELSE TextInt(f.manager_port),
     Host |-> IF f.host = Absent THEN base.Host ELSE f.host,
     CacheTypeK |-> IF f.cache_type_k = Absent THEN base.CacheTypeK ELSE f.cache_type_k,
     CacheTypeV |-> IF f.cache_type_v = Absent THEN base.CacheTypeV ELSE f.cache_type_v]

\* The result slot before any UpdateSettings call has returned.
NoCall == "no call yet"

ValidBackends == {"vulkan", "cuda", "rocm", "rocm_rocr", "metal"}

\* Settings (config.go:153) as PUT /api/settings decodes it; manager_port is
\* never read, and the cache types, left out of the bodies here, follow
\* host's pattern.
SettingsBodies ==
    [ServerBin : {"", "/opt/llama-server"},
     RestartDelay : {"", "x", "0s", "1500ms"},
     MaxRestarts : {0 - 1, 0},
     HealthCheckInterval : {"", "-1s", "1s"},
     GPUBackend : {"", "cuda", "opencl"},
     NGL : {0 - 1, 0},
     MainGPU : {0 - 1, 0},
     ContextLength : {0, 4096},
     Host : {"", "127.0.0.1"},
     CacheTypeK : {""},
     CacheTypeV : {""}]

\* The checks without the one on main_gpu.
FieldErrNoMainGPU(s) ==
    IF s.MaxRestarts < 0 THEN "max_restarts must be >= 0"
    ELSE IF s.NGL < 0 THEN "ngl must be >= 0"
    ELSE IF s.ContextLength <= 0 THEN "context_length must be > 0"
    ELSE IF s.GPUBackend # "" /\ s.GPUBackend \notin ValidBackends
    THEN "gpu_backend must be one of"
    ELSE ""

\* Config.UpdateSettings, the checks made before anything is assigned
\* (config.go:191-208), in the code's order.
FieldErr(s) ==
    IF s.MaxRestarts < 0 THEN "max_restarts must be >= 0"
    ELSE IF s.NGL < 0 THEN "ngl must be >= 0"
    ELSE IF s.MainGPU < 0 THEN "main_gpu must be >= 0"
    ELSE IF s.ContextLength <= 0 THEN "context_length must be > 0"
    ELSE IF s.GPUBackend # "" /\ s.GPUBackend \notin ValidBackends
    THEN "gpu_backend must be one of"
    ELSE ""

\* Config.UpdateSettings, the check of one duration text (config.go:213-220,
\* 223-230).
DurationErr(key, str) ==
    IF str = "" THEN ""
    ELSE IF ~ParseDurationOk(str) THEN "invalid " \o key
    ELSE IF ParseDuration(str) <= 0 THEN key \o " must be > 0"
    ELSE ""

\* Config.saveLocked, the scalar keys of the file after the write.
saveScalarsLocked(st, writeOk) ==
    IF writeOk THEN MarshalSettings(st) ELSE setFile

\* Config.UpdateSettings(s): server_bin is assigned before the durations are
\* checked, and each later assignment stands when a later check fails.
UpdateSettings(s, writeOk) ==
    LET a == [settings EXCEPT
                !.ServerBin = IF s.ServerBin # "" THEN s.ServerBin ELSE @]
        b == [a EXCEPT
                !.RestartDelay =
                    IF s.RestartDelay # "" THEN ParseDuration(s.RestartDelay) ELSE @]
        c == [b EXCEPT
                !.HealthCheckInterval =
                    IF s.HealthCheckInterval # ""
                    THEN ParseDuration(s.HealthCheckInterval) ELSE @,
                !.MaxRestarts = s.MaxRestarts,
                !.GPUBackend = IF s.GPUBackend # "" THEN s.GPUBackend ELSE @,
                !.Host = IF s.Host # "" THEN s.Host ELSE @,
                !.NGL = s.NGL,
                !.MainGPU = s.MainGPU,
                !.ContextLength = s.ContextLength,
                !.CacheTypeK = IF s.CacheTypeK # "" THEN s.CacheTypeK ELSE @,
                !.CacheTypeV = IF s.CacheTypeV # "" THEN s.CacheTypeV ELSE @]
    IN
    IF FieldErr(s) # ""
    THEN /\ setErr' = FieldErr(s)
         /\ UNCHANGED <<settings, cfgFile, setFile>>
    ELSE IF DurationErr("restart_delay", s.RestartDelay) # ""
    THEN /\ settings' = a
         /\ setErr' = DurationErr("restart_delay", s.RestartDelay)
         /\ UNCHANGED <<cfgFile, setFile>>
    ELSE IF DurationErr("health_check_interval", s.HealthCheckInterval) # ""
    THEN /\ settings' = b
         /\ setErr' = DurationErr("health_check_interval", s.HealthCheckInterval)
         /\ UNCHANGED <<cfgFile, setFile>>
    ELSE /\ settings' = c
         /\ cfgFile' = IF writeOk THEN Marshal(c.ServerBin, Instances) ELSE cfgFile
         /\ setFile' = saveScalarsLocked(c, writeOk)
         /\ setErr' = IF writeOk THEN "" ELSE "write failed"

\* The status PUT /api/settings answers for the last call (part_003:546-551).
SettingsStatus == IF setErr \in {"", NoCall} THEN 200 ELSE 400

\* PUT /api/settings whose body decodes.
PutSettings ==
    /\ \E writeOk \in BOOLEAN : UpdateSettings(setReq, writeOk)
    /\ UNCHANGED <<setReq, Instances, loaded, mInstances, byName, httpStatus, cfgErr>>

AllAbsent ==
    [restart_delay |-> Absent, max_restarts |-> Absent,
     health_check_interval |-> Absent, gpu_backend |-> Absent, ngl |-> Absent,
     main_gpu |-> Absent, context_length |-> Absent, manager_port |-> Absent,
     host |-> Absent, cache_type_k |-> Absent, cache_type_v |-> Absent]

\* Files a client uploads: one that is not YAML, and a config with one
\* instance, a zero max_restarts and some scalar keys missing.
Uploads ==
    {[ok |-> FALSE, server_bin |-> "", instances |-> <<>>, scalars |-> AllAbsent],
     [ok |-> TRUE, server_bin |-> "/usr/bin/llama-server",
      instances |-> <<[name |-> "b", model |-> "m.gguf", port |-> 9091,
                       gpu_ids |-> <<0>>, gpu_id |-> ""]>>,
      scalars |-> [AllAbsent EXCEPT !.restart_delay = "1s", !.max_restarts = "0",
                                    !.gpu_backend = "metal", !.main_gpu = "1",
                                    !.context_length = "4096",
                                    !.manager_port = "9000", !.host = "10.0.0.1",
                                    !.cache_type_k = "f16"]]}

\* An import that copies main_gpu as well.
ImportApplyWithMainGPU(live, test) ==
    [live EXCEPT
        !.ServerBin = IF test.ServerBin # "" THEN test.ServerBin ELSE @,
        !.Host = IF test.Host # "" THEN test.Host ELSE @,
        !.GPUBackend = IF test.GPUBackend # "" THEN test.GPUBackend ELSE @,
        !.RestartDelay = IF test.RestartDelay > 0 THEN test.RestartDelay ELSE @,
        !.HealthCheckInterval =
            IF test.HealthCheckInterval > 0 THEN test.HealthCheckInterval ELSE @,
        !.MaxRestarts = IF test.MaxRestarts > 0 THEN test.MaxRestarts ELSE @,
        !.NGL = IF test.NGL > 0 THEN test.NGL ELSE @,
        !.MainGPU = IF test.MainGPU > 0 THEN test.MainGPU ELSE @,
        !.ContextLength = IF test.ContextLength > 0 THEN test.ContextLength ELSE @,
        !.CacheTypeK = IF test.CacheTypeK # "" THEN test.CacheTypeK ELSE @,
        !.CacheTypeV = IF test.CacheTypeV # "" THEN test.CacheTypeV ELSE @]

\* handleConfigImport, the fields copied from the parsed upload into the live
\* config (part_003:497-526): strings when non-empty, numbers and durations
\* when positive; manager_port, main_gpu and the instances are not copied.
ImportApply(live, test) ==
    [live EXCEPT
        !.ServerBin = IF test.ServerBin # "" THEN test.ServerBin ELSE @,
        !.Host = IF test.Host # "" THEN test.Host ELSE @,
        !.GPUBackend = IF test.GPUBackend # "" THEN test.GPUBackend ELSE @,
        !.RestartDelay = IF test.RestartDelay > 0 THEN test.RestartDelay ELSE @,
        !.HealthCheckInterval =
            IF test.HealthCheckInterval > 0 THEN test.HealthCheckInterval ELSE @,
        !.MaxRestarts = IF test.MaxRestarts > 0 THEN test.MaxRestarts ELSE @,
        !.NGL = IF test.NGL > 0 THEN test.NGL ELSE @,
        !.ContextLength = IF test.ContextLength > 0 THEN test.ContextLength ELSE @,
        !.CacheTypeK = IF test.CacheTypeK # "" THEN test.CacheTypeK ELSE @,
        !.CacheTypeV = IF test.CacheTypeV # "" THEN test.CacheTypeV ELSE @]

\* handleConfigImport: parse into a zero Config, write the uploaded bytes,
\* then copy the non-empty and positive fields into the live config.
ConfigImport ==
    \E data \in Uploads, writeOk \in BOOLEAN :
        LET test == UnmarshalSettings(data.server_bin, data.scalars, ZeroSettings) IN
        IF ~data.ok
        THEN /\ httpStatus' = 400
             /\ UNCHANGED <<settings, setFile, setReq, setErr, Instances, cfgFile,
                            loaded, mInstances, byName, cfgErr>>
        ELSE IF ~writeOk
        THEN /\ httpStatus' = 500
             /\ UNCHANGED <<settings, setFile, setReq, setErr, Instances, cfgFile,
                            loaded, mInstances, byName, cfgErr>>
        ELSE /\ cfgFile' = [ok |-> TRUE, server_bin |-> data.server_bin,
                            instances |-> data.instances]
             /\ setFile' = data.scalars
             /\ settings' = ImportApply(settings, test)
             /\ httpStatus' = 200
             /\ UNCHANGED <<setReq, setErr, Instances, loaded, mInstances, byName, cfgErr>>

\* loadConfig, the value: the file applied to the defaults.
loadConfigValue(data, scalars) ==
    [settings |-> UnmarshalSettings(data.server_bin, scalars, DefaultSettings),
     instances |-> [i \in 1 .. Len(data.instances) |-> UnmarshalYAML(data.instances[i])]]

\* The instance the settings runs add, change and delete.
SetConfs == {ic \in InstanceConfs : ic.Name = "a" /\ ic.Port = 9090}

\* Add, update and delete beside the settings: saveLocked writes the scalar
\* keys with the instance list, on the calls that reach it and can write.
SetAdd ==
    /\ Len(Instances) < MaxSetInst
    /\ \E ic \in SetConfs, writeOk \in BOOLEAN : CfgAddInstance(ic, writeOk)
    /\ setFile' = saveScalarsLocked(settings, cfgErr' = "")
    /\ UNCHANGED <<settings, setReq, setErr, loaded, mInstances, byName, httpStatus>>

SetUpdate ==
    /\ \E ic \in SetConfs, writeOk \in BOOLEAN : CfgUpdateInstance("a", ic, writeOk)
    /\ setFile' = saveScalarsLocked(settings, cfgErr' = "")
    /\ UNCHANGED <<settings, setReq, setErr, loaded, mInstances, byName, httpStatus>>

SetDelete ==
    /\ \E writeOk \in BOOLEAN : CfgDeleteInstance("a", writeOk)
    /\ setFile' = saveScalarsLocked(settings, cfgErr' = "")
    /\ UNCHANGED <<settings, setReq, setErr, loaded, mInstances, byName, httpStatus>>

\* loadConfig's result on the file the process was started with.
SetParked ==
    /\ settings = [DefaultSettings EXCEPT !.ServerBin = ServerBin]
    /\ setFile = MarshalSettings([DefaultSettings EXCEPT !.ServerBin = ServerBin])
    /\ setReq = [ServerBin |-> "", RestartDelay |-> "", MaxRestarts |-> 0,
                 HealthCheckInterval |-> "", GPUBackend |-> "", NGL |-> 0,
                 MainGPU |-> 0, ContextLength |-> 0,
                 Host |-> "", CacheTypeK |-> "", CacheTypeV |-> ""]
    /\ setErr = NoCall

\* As SetParked, with the body of the PUT requests of the run.
SetInit ==
    /\ settings = [DefaultSettings EXCEPT !.ServerBin = ServerBin]
    /\ setFile = MarshalSettings([DefaultSettings EXCEPT !.ServerBin = ServerBin])
    /\ setReq \in SettingsBodies
    /\ setErr = NoCall

(***************************************************************************)
(* Download manager: one slot, one child process per job                   *)
(***************************************************************************)

\* Jobs started, output lines scanned per job and Stop calls logged per job in
\* one behaviour.
MaxJobs == 2
MaxScan == 1
MaxStops == 1

\* addLog's cap on a job's log (config.go:492).
DlLogCap == 500

Repos == {"x/y"}
Quants == {"", "Q4_K_M"}
JobIds == 1 .. MaxJobs

\* What a drained line can be for the completion heuristic.
OutLines == {"llama_model_loader", "main: server is listening on"}
\* strings.Contains(line, "listening on") || strings.Contains(line, "all slots are idle")
Matches(line) == line = "main: server is listening on"

NoJob ==
    [Repo |-> "", Quant |-> "", Status |-> "", Logs |-> <<>>, args |-> <<>>,
     proc |-> "none", held |-> <<>>, scanned |-> 0, killAsync |-> FALSE]

\* DownloadJob.addLog: append, keep the last DlLogCap lines.
addLog(logs, line) ==
    LET l == Append(logs, line) IN
    IF Len(l) > DlLogCap THEN LastN(l, DlLogCap) ELSE l

\* Start's busy test accepting a new job whenever a slot record exists.
StartBusyNever(a, js) == FALSE

\* DownloadManager.Start, the busy test (config.go:369).
StartBusy(a, js) == a # 0 /\ js[a].Status = "downloading"

\* The model argument of the child with the quant always appended.
ModelArgAlways(repo, quant) == repo \o ":" \o quant

\* DownloadManager.Start, the model argument: repo, or repo:quant.
ModelArg(repo, quant) == IF quant # "" THEN repo \o ":" \o quant ELSE repo

\* DownloadManager.GetStatus
GetStatus ==
    IF active = 0
    THEN [Active |-> FALSE, Repo |-> "", Quant |-> "", Status |-> "", Logs |-> <<>>]
    ELSE [Active |-> jobs[active].Status = "downloading", Repo |-> jobs[active].Repo,
          Quant |-> jobs[active].Quant, Status |-> jobs[active].Status,
          Logs |-> jobs[active].Logs]

FreeJob == CHOOSE j \in JobIds : jobs[j].proc = "none" /\ \A k \in 1 .. j - 1 : jobs[k].proc # "none"

\* DownloadManager.Start(repo, quant): busy error, spawn error, or a new job
\* in the slot with its drain tasks and exit observer.
DlStart(repo, quant, spawnOk) ==
    IF StartBusy(active, jobs)
    THEN /\ dlErr' = "download already in progress"
         /\ UNCHANGED <<active, jobs>>
    ELSE IF ~spawnOk
    THEN /\ dlErr' = "starting download"
         /\ UNCHANGED <<active, jobs>>
    ELSE /\ jobs' = [jobs EXCEPT ![FreeJob] =
                [Repo |-> repo, Quant |-> quant, Status |-> "downloading", Logs |-> <<>>,
                 args |-> <<"-hf", ModelArg(repo, quant), "--port", "0">>,
                 proc |-> "run", held |-> <<>>, scanned |-> 0, killAsync |-> FALSE]]
         /\ active' = FreeJob
         /\ dlErr' = ""

\* Process.Kill on job j's child: a running child is signalled, a finished
\* one is left as it is.
Kill(p) == IF p = "run" THEN "killed" ELSE p

DlInit ==
    /\ active = 0
    /\ jobs = [j \in JobIds |-> NoJob]
    /\ dlErr = ""

\* WebServer.handleModelDownload: a body that is not JSON or has no repo is
\* refused before Start is called.
DownloadStart ==
    /\ StartBusy(active, jobs) \/ \E j \in JobIds : jobs[j].proc = "none"
    /\ \/ /\ dlErr' = "repo is required"
          /\ UNCHANGED <<active, jobs>>
       \/ \E repo \in Repos, quant \in Quants, spawnOk \in BOOLEAN :
            DlStart(repo, quant, spawnOk)

\* The status handleModelDownload answers: 400 for a refused body, 409 for any
\* error of Start.
DownloadStatusCode ==
    IF dlErr = "" THEN 200
    ELSE IF dlErr = "repo is required" THEN 400
    ELSE 409

StopsLogged(logs) ==
    Cardinality({i \in 1 .. Len(logs) : logs[i] = "download stopped by user"})

\* DownloadManager.Stop
DownloadStop ==
    /\ active # 0 => StopsLogged(jobs[active].Logs) < MaxStops
    /\ IF active = 0
       THEN UNCHANGED jobs
       ELSE jobs' = [jobs EXCEPT ![active] =
                [@ EXCEPT !.Status = "stopped",
                          !.Logs = addLog(@, "download stopped by user"),
                          !.proc = Kill(@)]]
    /\ UNCHANGED <<active, dlErr>>

\* captureOutput, scanner.Scan: one of the two drain tasks reads a line while
\* the pipes are open (Wait closes them).
DlScan(j) ==
    /\ jobs[j].proc \in {"run", "killed", "exit0", "exit1"}
    /\ jobs[j].scanned < MaxScan
    /\ Len(jobs[j].held) < 2
    /\ \E line \in OutLines :
        jobs' = [jobs EXCEPT ![j] =
            [@ EXCEPT !.held = Append(@, line), !.scanned = @ + 1]]
    /\ UNCHANGED <<active, dlErr>>

\* captureOutput, the locked part: log the line; on a match mark the job done
\* and kill the child asynchronously.
DlCapture(j) ==
    /\ \E i \in 1 .. Len(jobs[j].held) :
        LET line == jobs[j].held[i]
            rest == RemoveAt(jobs[j].held, i)
        IN  jobs' = [jobs EXCEPT ![j] =
                IF Matches(line)
                THEN [@ EXCEPT !.held = rest, !.Status = "done",
                               !.Logs = addLog(addLog(@, line), "model downloaded, stopping server"),
                               !.killAsync = TRUE]
                ELSE [@ EXCEPT !.held = rest, !.Logs = addLog(@, line)]]
    /\ UNCHANGED <<active, dlErr>>

\* go job.cmd.Process.Kill()
DlKillAsync(j) ==
    /\ jobs[j].killAsync
    /\ jobs' = [jobs EXCEPT ![j] = [@ EXCEPT !.killAsync = FALSE, !.proc = Kill(@)]]
    /\ UNCHANGED <<active, dlErr>>

\* The child ends: a killed child with an error, another with or without.
DlChildExit(j) ==
    /\ \/ /\ jobs[j].proc = "killed"
          /\ jobs' = [jobs EXCEPT ![j] = [@ EXCEPT !.proc = "exit1"]]
       \/ /\ jobs[j].proc = "run"
          /\ \E p \in {"exit0", "exit1"} :
                jobs' = [jobs EXCEPT ![j] = [@ EXCEPT !.proc = p]]
    /\ UNCHANGED <<active, dlErr>>

\* The exit observer of Start (config.go:410): cmd.Wait returned.
DlExitObserver(j) ==
    /\ jobs[j].proc \in {"exit0", "exit1"}
    /\ jobs' = [jobs EXCEPT ![j] =
            IF @.Status = "stopped" THEN [@ EXCEPT !.proc = "waited"]
            ELSE IF @.proc = "exit1"
            THEN [@ EXCEPT !.proc = "waited", !.Status = "failed",
                           !.Logs = addLog(@, "process exited: error")]
            ELSE [@ EXCEPT !.proc = "waited", !.Status = "done",
                           !.Logs = addLog(@, "download complete")]]
    /\ UNCHANGED <<active, dlErr>>

(***************************************************************************)
(* One supervised instance: Instance, Manager, supervisor loops,           *)
(* health-probe loops, exit observers, operator actions                    *)
(***************************************************************************)

\* Child processes spawned, supervisor loops launched and operator requests
\* made in one behaviour, and the max_restarts setting explored besides 0.
MaxChildren == 2
MaxSup == 2
MaxOps == 2
MaxR == 1

Children == 1 .. MaxChildren
Sups == 1 .. MaxSup

StateStopped == "stopped"
StateStarting == "starting"
StateRunning == "running"
StateCrashed == "crashed"
StateRestarting == "restarting"
InstanceStates ==
    {StateStopped, StateStarting, StateRunning, StateCrashed, StateRestarting}

\* How a supervisor loop returned.
SupReturned ==
    {"unmanaged", "refused", "startfailed", "shutdown", "sawstopped", "gaveup", "sleepstop"}

\* A Shutdown that never closes m.stopCh.
mStopChNeverClosed == FALSE

\* m.stopCh is closed by Shutdown's first statement.
mStopChClosed == shut # "no"

\* Child c has been spawned and has not exited.
Live(c) == proc[c] \in {"run", "killed"}

NoFreeChild == \A c \in Children : proc[c] # "none"
FreeChild == CHOOSE c \in Children : proc[c] = "none" /\ \A k \in 1 .. c - 1 : proc[k] # "none"
NoFreeSup == \A s \in Sups : sup[s].pc # "off"
FreeSup == CHOOSE s \in Sups : sup[s].pc = "off" /\ \A k \in 1 .. s - 1 : sup[k].pc # "off"

\* The state after close(inst.stopCh); inst.stopCh = nil, guarded by the nil
\* test (instance.go:217, 239).
CloseStopCh ==
    /\ closes' = IF stopCh # 0 THEN [closes EXCEPT ![stopCh] = @ + 1] ELSE closes
    /\ stopCh' = 0

\* Instance.Start, the guard (instance.go:103).
StartRefused == state = StateRunning \/ state = StateStarting

\* A failing Start that has already set the state.
StartFailsAfterStarting ==
    /\ state' = StateStarting
    /\ UNCHANGED <<cmd, stopCh, restartCount, lastError, closes, proc, hl>>

\* Instance.Start, failure (instance.go:103-105, 170-186): every error return
\* comes before the first assignment to the instance, and no probe loop is
\* started (manager.go:138-141).
StartFails == UNCHANGED <<instVars, proc, hl>>

\* Instance.Start, success (instance.go:188-203): child c is spawned and
\* becomes the instance's child, with a new stop channel.
StartSpawn(c) ==
    /\ cmd' = c
    /\ state' = StateStarting
    /\ lastError' = ""
    /\ stopCh' = c
    /\ proc' = [proc EXCEPT ![c] = "run"]
    /\ UNCHANGED <<restartCount, closes>>

\* Instance.Stop that clears the child handle before its state test.
StopClearsHandle ==
    IF state = StateStopped
    THEN /\ cmd' = 0
         /\ UNCHANGED <<state, stopCh, restartCount, lastError, closes, proc>>
    ELSE /\ state' = StateStopped
         /\ CloseStopCh
         /\ proc' = IF cmd = 0 THEN proc ELSE [proc EXCEPT ![cmd] = Kill(@)]
         /\ UNCHANGED <<cmd, restartCount, lastError>>

\* Instance.Stop (instance.go:230)
Stop ==
    IF state = StateStopped
    THEN UNCHANGED <<state, cmd, stopCh, restartCount, lastError, closes, proc>>
    ELSE /\ state' = StateStopped
         /\ CloseStopCh
         /\ proc' = IF cmd = 0 THEN proc ELSE [proc EXCEPT ![cmd] = Kill(@)]
         /\ UNCHANGED <<cmd, restartCount, lastError>>

InstInit ==
    /\ state = StateStopped
    /\ cmd = 0
    /\ stopCh = 0
    /\ restartCount = 0
    /\ lastError = ""
    /\ closes = [c \in Children |-> 0]
    /\ proc = [c \in Children |-> "none"]
    /\ managed = TRUE
    /\ hl = [c \in Children |-> [pc |-> "off", ch |-> 0]]
    /\ op = [pc |-> "idle", n |-> 0, last |-> "none", from |-> "", status |-> 0]
    /\ shut = "no"

\* NewManager, then StartAll: one supervisor loop for the instance.
SupInit ==
    /\ InstInit
    /\ MaxRestarts \in {0, MaxR}
    /\ sup = [s \in Sups |-> [pc |-> IF s = 1 THEN "top" ELSE "off", ch |-> 0]]

SupParked ==
    /\ InstInit
    /\ MaxRestarts = 0
    /\ sup = [s \in Sups |-> [pc |-> "off", ch |-> 0]]

\* A child process ends, by itself or after a kill signal.
ChildExit(c) ==
    /\ Live(c)
    /\ proc' = [proc EXCEPT ![c] = "exited"]
    /\ UNCHANGED <<instVars, managed, MaxRestarts, sup, hl, op, shut>>

\* What err.Error() of cmd.Wait can be; a nil error is reported as
\* "process exited unexpectedly" (instance.go:211-215).
ExitErrors == {"exit status 1", "process exited unexpectedly"}

\* The exit observer of Start (instance.go:206-225): cmd.Wait returned for
\* child c; exitCh of c is closed at the end.
ExitObserver(c) ==
    /\ proc[c] = "exited"
    /\ IF state # StateStopped
       THEN /\ state' = StateCrashed
            /\ lastError' \in ExitErrors
            /\ CloseStopCh
       ELSE UNCHANGED <<state, lastError, stopCh, closes>>
    /\ cmd' = 0
    /\ proc' = [proc EXCEPT ![c] = "reaped"]
    /\ UNCHANGED <<restartCount, managed, MaxRestarts, sup, hl, op, shut>>

\* runWithRestart, the isManaged test at the top of the loop.
SupTop(s) ==
    /\ sup[s].pc = "top"
    /\ sup' = [sup EXCEPT ![s].pc = IF managed THEN "start" ELSE "unmanaged"]
    /\ UNCHANGED <<instVars, proc, managed, MaxRestarts, hl, op, shut>>

\* runWithRestart, inst.Start() and go m.healthCheckLoop(inst).
SupStart(s) ==
    /\ sup[s].pc = "start"
    /\ \/ /\ StartRefused
          /\ sup' = [sup EXCEPT ![s].pc = "refused"]
          /\ StartFails
       \/ /\ ~StartRefused
          /\ sup' = [sup EXCEPT ![s].pc = "startfailed"]
          /\ StartFails
       \/ /\ ~StartRefused
          /\ ~NoFreeChild
          /\ StartSpawn(FreeChild)
          /\ sup' = [sup EXCEPT ![s] = [pc |-> "wait", ch |-> FreeChild]]
          /\ hl' = [hl EXCEPT ![FreeChild].pc = "init"]
    /\ UNCHANGED <<managed, MaxRestarts, op, shut>>

\* runWithRestart, the first select and the State() test after it.
SupWait(s) ==
    /\ sup[s].pc = "wait"
    /\ \/ /\ proc[sup[s].ch] = "reaped"
          /\ sup' = [sup EXCEPT ![s] =
                [pc |-> IF state = StateStopped THEN "sawstopped" ELSE "incr", ch |-> 0]]
          /\ UNCHANGED <<instVars, proc>>
       \/ /\ mStopChClosed
          /\ Stop
          /\ sup' = [sup EXCEPT ![s] = [pc |-> "shutdown", ch |-> 0]]
    /\ UNCHANGED <<managed, MaxRestarts, hl, op, shut>>

\* Instance.IncrementRestarts
SupIncr(s) ==
    /\ sup[s].pc = "incr"
    /\ restartCount' = restartCount + 1
    /\ sup' = [sup EXCEPT ![s].pc = "count"]
    /\ UNCHANGED <<state, cmd, stopCh, lastError, closes, proc, managed, MaxRestarts, hl, op, shut>>

\* runWithRestart, the give-up test (manager.go:158).
GiveUp(count) == MaxRestarts > 0 /\ count >= MaxRestarts

\* Instance.RestartCount and the give-up test.
SupCount(s) ==
    /\ sup[s].pc = "count"
    /\ sup' = [sup EXCEPT ![s].pc = IF GiveUp(restartCount) THEN "gaveup" ELSE "setr"]
    /\ UNCHANGED <<instVars, proc, managed, MaxRestarts, hl, op, shut>>

\* inst.SetState(StateRestarting)
SupSetRestarting(s) ==
    /\ sup[s].pc = "setr"
    /\ state' = StateRestarting
    /\ sup' = [sup EXCEPT ![s].pc = "sleep"]
    /\ UNCHANGED <<cmd, stopCh, restartCount, lastError, closes, proc, managed, MaxRestarts, hl, op, shut>>

\* runWithRestart, the second select: the restart delay passes, or m.stopCh
\* is closed and the state is set to stopped.
SupSleep(s) ==
    /\ sup[s].pc = "sleep"
    /\ \/ /\ sup' = [sup EXCEPT ![s].pc = "top"]
          /\ UNCHANGED state
       \/ /\ mStopChClosed
          /\ state' = StateStopped
          /\ sup' = [sup EXCEPT ![s].pc = "sleepstop"]
    /\ UNCHANGED <<cmd, stopCh, restartCount, lastError, closes, proc, managed, MaxRestarts, hl, op, shut>>

\* healthCheckLoop, the read of inst.stopCh (manager.go:176-182).
HlInit(k) ==
    /\ hl[k].pc = "init"
    /\ hl' = [hl EXCEPT ![k] = IF stopCh = 0 THEN [pc |-> "done", ch |-> 0]
                                ELSE [pc |-> "idle", ch |-> stopCh]]
    /\ UNCHANGED <<instVars, proc, managed, MaxRestarts, sup, op, shut>>

\* healthCheckLoop, a tick whose probe is answered 200: the state is read as
\* starting or running and CheckHealth gets a 200, which needs a child that
\* is still running. (A tick that reads another state, or whose probe fails,
\* changes nothing. The read and the probe are one step here: between a read
\* and a later 200 there is always a moment when both hold, because a child
\* can only appear through Start, which sets the state to starting.)
HlProbe(k) ==
    /\ hl[k].pc = "idle"
    /\ state = StateStarting \/ state = StateRunning
    /\ \E c \in Children : Live(c)
    /\ hl' = [hl EXCEPT ![k].pc = "set"]
    /\ UNCHANGED <<instVars, proc, managed, MaxRestarts, sup, op, shut>>

\* healthCheckLoop, inst.SetState(StateRunning) after a 200.
HlSetRunning(k) ==
    /\ hl[k].pc = "set"
    /\ state' = StateRunning
    /\ hl' = [hl EXCEPT ![k].pc = "idle"]
    /\ UNCHANGED <<cmd, stopCh, restartCount, lastError, closes, proc, managed, MaxRestarts, sup, op, shut>>

\* healthCheckLoop, the stopCh case of the select.
HlStop(k) ==
    /\ hl[k].pc = "idle"
    /\ closes[hl[k].ch] > 0
    /\ hl' = [hl EXCEPT ![k] = [pc |-> "done", ch |-> 0]]
    /\ UNCHANGED <<instVars, proc, managed, MaxRestarts, sup, op, shut>>

\* The control plane serves requests until Shutdown has returned and main
\* closes the HTTP server. One RestartInstance or RemoveInstance is in
\* progress at a time. op.n counts the requests made; op.last names the
\* latest one, op.from the state StopInstance found the instance in, and
\* op.status the status handleInstanceAction answered it with (0 while the
\* request is being served, and for a removal, which another handler answers).
Serving == shut # "returned" /\ op.n < MaxOps

\* Manager.StartInstance: ResetRestarts, then supervise.
StartInstance ==
    /\ Serving
    /\ managed
    /\ ~NoFreeSup
    /\ restartCount' = 0
    /\ sup' = [sup EXCEPT ![FreeSup].pc = "top"]
    /\ op' = [op EXCEPT !.n = @ + 1, !.last = "start", !.from = "", !.status = 200]
    /\ UNCHANGED <<state, cmd, stopCh, lastError, closes, proc, managed, MaxRestarts, hl, shut>>

\* Manager.StopInstance
StopInstance ==
    /\ Serving
    /\ managed
    /\ Stop
    /\ op' = [op EXCEPT !.n = @ + 1, !.last = "stop", !.from = state, !.status = 200]
    /\ UNCHANGED <<managed, MaxRestarts, sup, hl, shut>>

\* Manager.RestartInstance, inst.ResetRestarts()
RestartReset ==
    /\ Serving
    /\ managed
    /\ ~NoFreeSup
    /\ op.pc = "idle"
    /\ restartCount' = 0
    /\ op' = [pc |-> "reset", n |-> op.n + 1, last |-> "restart", from |-> "", status |-> 0]
    /\ UNCHANGED <<state, cmd, stopCh, lastError, closes, proc, managed, MaxRestarts, sup, hl, shut>>

\* Manager.RestartInstance, inst.Stop()
RestartStop ==
    /\ op.pc = "reset"
    /\ Stop
    /\ op' = [op EXCEPT !.pc = "slept"]
    /\ UNCHANGED <<managed, MaxRestarts, sup, hl, shut>>

\* Manager.RestartInstance, m.supervise(inst) after the 500 ms sleep.
RestartSupervise ==
    /\ op.pc = "slept"
    /\ ~NoFreeSup
    /\ sup' = [sup EXCEPT ![FreeSup].pc = "top"]
    /\ op' = [op EXCEPT !.pc = "idle", !.status = 200]
    /\ UNCHANGED <<instVars, proc, managed, MaxRestarts, hl, shut>>

\* Manager.RemoveInstance, the unlink under m.mu.
RemoveUnlink ==
    /\ Serving
    /\ managed
    /\ op.pc = "idle"
    /\ managed' = FALSE
    /\ op' = [pc |-> "unlinked", n |-> op.n + 1, last |-> "remove", from |-> "", status |-> 0]
    /\ UNCHANGED <<instVars, proc, MaxRestarts, sup, hl, shut>>

\* Manager.RemoveInstance, inst.Stop()
RemoveStop ==
    /\ op.pc = "unlinked"
    /\ Stop
    /\ op' = [op EXCEPT !.pc = "idle"]
    /\ UNCHANGED <<managed, MaxRestarts, sup, hl, shut>>

\* Manager.Shutdown, close(m.stopCh)
ShutdownClose ==
    /\ shut = "no"
    /\ shut' = "closed"
    /\ UNCHANGED <<instVars, proc, managed, MaxRestarts, sup, hl, op>>

\* Manager.Shutdown, Stop on every instance of the slice.
ShutdownStop ==
    /\ shut = "closed"
    /\ IF managed THEN Stop
       ELSE UNCHANGED <<state, cmd, stopCh, restartCount, lastError, closes, proc>>
    /\ shut' = "waiting"
    /\ UNCHANGED <<managed, MaxRestarts, sup, hl, op>>

\* Manager.Shutdown, m.wg.Wait() returns once every supervisor loop has.
ShutdownReturn ==
    /\ shut = "waiting"
    /\ \A s \in Sups : sup[s].pc \in SupReturned \cup {"off"}
    /\ shut' = "returned"
    /\ UNCHANGED <<instVars, proc, managed, MaxRestarts, sup, hl, op>>

(***************************************************************************)
(* Locks: what each task takes and releases, in the order of its code      *)
(***************************************************************************)

Locks == {"Manager.mu", "Instance.mu", "Config.mu", "DownloadManager.mu", "DownloadJob.mu"}

\* One call on a mutex: Lock or RLock ("acq", mode "w" or "r"), Unlock or
\* RUnlock ("rel"). A task at an "acq" call is inside Lock or RLock.
Lock(l) == [k |-> "acq", l |-> l, m |-> "w"]
Unlock(l) == [k |-> "rel", l |-> l, m |-> "w"]
RLock(l) == [k |-> "acq", l |-> l, m |-> "r"]
RUnlock(l) == [k |-> "rel", l |-> l, m |-> "r"]

\* Manager.isManaged, Get, Instances, and the lookups of StartInstance,
\* StopInstance, RestartInstance, StartAll and Shutdown.
isManaged == <<RLock("Manager.mu"), RUnlock("Manager.mu")>>

\* Manager.AddInstance, and RemoveInstance up to its Unlock.
MgrWrite == <<Lock("Manager.mu"), Unlock("Manager.mu")>>

\* State, SetState, IncrementRestarts, RestartCount, ResetRestarts, Status,
\* Stop, captureOutput's Add, the exit observer, a refused Start, and the
\* read of inst.stopCh by healthCheckLoop.
InstSection == <<Lock("Instance.mu"), Unlock("Instance.mu")>>

\* An Instance.Start that calls a Config method taking the read lock again
\* while it holds it.
StartLocksNested ==
    <<Lock("Instance.mu"), RLock("Config.mu"), RLock("Config.mu"),
      RUnlock("Config.mu"), RUnlock("Config.mu"), Unlock("Instance.mu")>>

\* Instance.Start past its state test (instance.go:100-116): the config is
\* read under its read lock while the instance lock is held; GPUEnvVar takes
\* no lock.
StartLocks ==
    <<Lock("Instance.mu"), RLock("Config.mu"), RUnlock("Config.mu"),
      Unlock("Instance.mu")>>

\* CheckHealth, FetchMetrics' read of the host, GetSettings, GetInstances,
\* handleConfigExport.
CfgRead == <<RLock("Config.mu"), RUnlock("Config.mu")>>

\* Config.AddInstance, UpdateInstance, DeleteInstance, UpdateSettings and the
\* write and copy of handleConfigImport (part_003:491-527).
CfgWrite == <<Lock("Config.mu"), Unlock("Config.mu")>>

\* Manager.RemoveInstance of a known name: the manager lock is released
\* before inst.Stop().
RemoveInstanceLocks == MgrWrite \o InstSection

\* DownloadManager.Stop and GetStatus with an active job.
DlNested ==
    <<Lock("DownloadManager.mu"), Lock("DownloadJob.mu"),
      Unlock("DownloadJob.mu"), Unlock("DownloadManager.mu")>>

\* DownloadManager.Start, and Stop and GetStatus without an active job.
DlOnly == <<Lock("DownloadManager.mu"), Unlock("DownloadManager.mu")>>

\* DownloadJob.captureOutput per line, and the job's exit observer.
JobSection == <<Lock("DownloadJob.mu"), Unlock("DownloadJob.mu")>>

\* One turn of runWithRestart (manager.go:133-172): isManaged, Start, State,
\* IncrementRestarts, RestartCount, SetState; shorter when the instance is no
\* longer managed or Start is refused.
SupervisorRuns ==
    {isManaged,
     isManaged \o InstSection,
     isManaged \o StartLocks \o InstSection \o InstSection \o InstSection \o InstSection}

\* healthCheckLoop (manager.go:175-199): the read of inst.stopCh, and one
\* tick: State twice, CheckHealth, SetState.
ProbeRuns ==
    {InstSection, InstSection \o InstSection \o CfgRead \o InstSection}

\* Handlers of the control plane: POST config instance, PUT, DELETE, instance
\* status, start (lookup, ResetRestarts) and stop.
HandlerRuns ==
    {CfgWrite \o MgrWrite,
     RemoveInstanceLocks \o CfgWrite \o MgrWrite,
     RemoveInstanceLocks \o CfgWrite,
     isManaged \o InstSection}

\* handleConfigImport, GET /api/settings, and PUT /api/settings
\* (UpdateSettings, then GetSettings for the answer).
ImportRuns == {CfgWrite, CfgRead, CfgWrite \o CfgRead}

Tasks == {"supervisor", "probe", "observer", "handler", "import", "download", "job"}

\* The tasks of the download side take DownloadManager.mu and DownloadJob.mu
\* and no other lock; the other tasks take neither of the two.
DownloadSide == {"download", "job"}
Side(t) == IF t \in DownloadSide THEN DownloadSide ELSE Tasks \ DownloadSide

\* The lock sequences a task can be running.
Runs(t) ==
    CASE t = "supervisor" -> SupervisorRuns
      [] t = "probe" -> ProbeRuns
      [] t = "observer" -> {InstSection}
      [] t = "handler" -> HandlerRuns
      [] t = "import" -> ImportRuns
      [] t = "download" -> {DlNested, DlOnly}
      [] OTHER -> {JobSection}

\* No lock held, no task inside a run.
LockParked ==
    /\ mu = [l \in Locks |-> [w |-> "", r |-> {}]]
    /\ task = [t \in Tasks |-> <<>>]

\* task[t] holds the calls of t's run that have not returned yet; the first
\* of them is the call t is at.
Cur(t) == Head(task[t])
AtCall(t) == task[t] # <<>>
AtAcquire(t) == AtCall(t) /\ Cur(t).k = "acq"

\* The locks task t holds.
Held(t) == {l \in Locks : mu[l].w = t \/ t \in mu[l].r}

\* Tasks in Lock(l), and tasks in RLock(l).
Writers(l) == {u \in Tasks : AtCall(u) /\ Cur(u) = Lock(l)}
Readers(l) == {u \in Tasks : AtCall(u) /\ Cur(u) = RLock(l)}

\* sync.Mutex and sync.RWMutex: Lock returns when nobody holds the lock;
\* RLock returns when no writer holds it and none is in Lock.
CanAcquire(t) ==
    LET l == Cur(t).l IN
    /\ mu[l].w = ""
    /\ IF Cur(t).m = "w" THEN mu[l].r = {} ELSE Writers(l) = {}

\* Task t begins one of its runs. The two sides share no lock, so their steps
\* commute, and a run is explored with one side at work at a time.
Begin(t) ==
    /\ ~AtCall(t)
    /\ \A u \in Tasks \ Side(t) : ~AtCall(u)
    /\ \E run \in Runs(t) : task' = [task EXCEPT ![t] = run]
    /\ UNCHANGED mu

\* Lock or RLock returns.
Acquire(t) ==
    /\ AtAcquire(t)
    /\ CanAcquire(t)
    /\ mu' = [mu EXCEPT ![Cur(t).l] =
                IF Cur(t).m = "w" THEN [w |-> t, r |-> {}]
                ELSE [w |-> "", r |-> @.r \cup {t}]]
    /\ task' = [task EXCEPT ![t] = Tail(@)]

\* Unlock and RUnlock. RWMutex.Unlock lets in every reader that is in RLock,
\* before the next writer.
Release(t) ==
    /\ AtCall(t)
    /\ Cur(t).k = "rel"
    /\ LET l == Cur(t).l
           admitted == IF Cur(t).m = "w" THEN Readers(l) ELSE {}
       IN
       /\ mu' = [mu EXCEPT ![l] =
                    IF Cur(t).m = "w" THEN [w |-> "", r |-> admitted]
                    ELSE [w |-> @.w, r |-> @.r \ {t}]]
       /\ task' = [u \in Tasks |->
                    IF u = t \/ u \in admitted THEN Tail(task[u]) ELSE task[u]]

(***************************************************************************)
(* Specifications                                                          *)
(***************************************************************************)

supAll == <<instVars, supVars>>

RingNext ==
    \/ RingAdd /\ UNCHANGED <<cfgVars, setVars, reqVars, argVars, dlVars, supAll, lockVars>>
    \/ RingLines /\ UNCHANGED <<cfgVars, setVars, reqVars, argVars, dlVars, supAll, lockVars>>

InitRing == RingInit /\ CfgParked /\ SetParked /\ ReqParked /\ ArgParked /\ DlInit /\ LockParked /\ SupParked

SpecRing == InitRing /\ [][RingNext]_vars

StoreNext ==
    \/ StoreAdd /\ UNCHANGED <<rbVars, setVars, reqVars, argVars, dlVars, supAll, lockVars>>
    \/ StoreUpdate /\ UNCHANGED <<rbVars, setVars, reqVars, argVars, dlVars, supAll, lockVars>>
    \/ StoreDelete /\ UNCHANGED <<rbVars, setVars, reqVars, argVars, dlVars, supAll, lockVars>>

InitStore == RingParked /\ StoreInit /\ SetParked /\ ReqParked /\ ArgParked /\ DlInit /\ LockParked /\ SupParked

SpecStore == InitStore /\ [][StoreNext]_vars

SettingsNext ==
    \/ PutSettings /\ UNCHANGED <<rbVars, reqVars, argVars, dlVars, supAll, lockVars>>
    \/ ConfigImport /\ UNCHANGED <<rbVars, reqVars, argVars, dlVars, supAll, lockVars>>
    \/ SetAdd /\ UNCHANGED <<rbVars, reqVars, argVars, dlVars, supAll, lockVars>>
    \/ SetUpdate /\ UNCHANGED <<rbVars, reqVars, argVars, dlVars, supAll, lockVars>>
    \/ SetDelete /\ UNCHANGED <<rbVars, reqVars, argVars, dlVars, supAll, lockVars>>

InitSettings == RingParked /\ CfgParked /\ SetInit /\ ReqParked /\ ArgParked /\ DlInit /\ LockParked /\ SupParked

SpecSettings == InitSettings /\ [][SettingsNext]_vars

HTTPNext ==
    \/ LoadConfig /\ UNCHANGED <<rbVars, setVars, reqVars, argVars, dlVars, supAll, lockVars>>
    \/ PostConfigInstance /\ UNCHANGED <<rbVars, setVars, reqVars, argVars, dlVars, supAll, lockVars>>
    \/ PutConfigInstance /\ UNCHANGED <<rbVars, setVars, reqVars, argVars, dlVars, supAll, lockVars>>
    \/ DeleteConfigInstance /\ UNCHANGED <<rbVars, setVars, reqVars, argVars, dlVars, supAll, lockVars>>

InitHTTP == RingParked /\ HTTPInit /\ SetParked /\ ReqParked /\ ArgParked /\ DlInit /\ LockParked /\ SupParked

SpecHTTP == InitHTTP /\ [][HTTPNext]_vars

ServeNext ==
    \/ ServeHTTP /\ UNCHANGED <<rbVars, setVars, argVars, dlVars, supAll, lockVars>>

InitServe == RingParked /\ CfgParked /\ SetParked /\ ReqParked /\ ArgParked /\ DlInit /\ LockParked /\ SupParked

SpecServe == InitServe /\ [][ServeNext]_vars

ArgsNext ==
    \/ BuildCommand /\ UNCHANGED <<rbVars, cfgVars, setVars, reqVars, dlVars, supAll, lockVars>>

InitArgs == RingParked /\ CfgParked /\ SetParked /\ ReqParked /\ ArgInit /\ DlInit /\ LockParked /\ SupParked

SpecArgs == InitArgs /\ [][ArgsNext]_vars

DownloadNext ==
    \/ DownloadStart /\ UNCHANGED <<rbVars, cfgVars, setVars, reqVars, argVars, supAll, lockVars>>
    \/ DownloadStop /\ UNCHANGED <<rbVars, cfgVars, setVars, reqVars, argVars, supAll, lockVars>>
    \/ \E j \in JobIds :
        \/ DlScan(j) /\ UNCHANGED <<rbVars, cfgVars, setVars, reqVars, argVars, supAll, lockVars>>
        \/ DlCapture(j) /\ UNCHANGED <<rbVars, cfgVars, setVars, reqVars, argVars, supAll, lockVars>>
        \/ DlKillAsync(j) /\ UNCHANGED <<rbVars, cfgVars, setVars, reqVars, argVars, supAll, lockVars>>
        \/ DlChildExit(j) /\ UNCHANGED <<rbVars, cfgVars, setVars, reqVars, argVars, supAll, lockVars>>
        \/ DlExitObserver(j) /\ UNCHANGED <<rbVars, cfgVars, setVars, reqVars, argVars, supAll, lockVars>>

InitDownload == RingParked /\ CfgParked /\ SetParked /\ ReqParked /\ ArgParked /\ DlInit /\ LockParked /\ SupParked

SpecDownload == InitDownload /\ [][DownloadNext]_vars

Next ==
    \/ \E c \in Children :
        \/ ChildExit(c) /\ UNCHANGED <<rbVars, cfgVars, setVars, reqVars, argVars, dlVars, lockVars>>
        \/ ExitObserver(c) /\ UNCHANGED <<rbVars, cfgVars, setVars, reqVars, argVars, dlVars, lockVars>>
        \/ HlInit(c) /\ UNCHANGED <<rbVars, cfgVars, setVars, reqVars, argVars, dlVars, lockVars>>
        \/ HlProbe(c) /\ UNCHANGED <<rbVars, cfgVars, setVars, reqVars, argVars, dlVars, lockVars>>
        \/ HlSetRunning(c) /\ UNCHANGED <<rbVars, cfgVars, setVars, reqVars, argVars, dlVars, lockVars>>
        \/ HlStop(c) /\ UNCHANGED <<rbVars, cfgVars, setVars, reqVars, argVars, dlVars, lockVars>>
    \/ \E s \in Sups :
        \/ SupTop(s) /\ UNCHANGED <<rbVars, cfgVars, setVars, reqVars, argVars, dlVars, lockVars>>
        \/ SupStart(s) /\ UNCHANGED <<rbVars, cfgVars, setVars, reqVars, argVars, dlVars, lockVars>>
        \/ SupWait(s) /\ UNCHANGED <<rbVars, cfgVars, setVars, reqVars, argVars, dlVars, lockVars>>
        \/ SupIncr(s) /\ UNCHANGED <<rbVars, cfgVars, setVars, reqVars, argVars, dlVars, lockVars>>
        \/ SupCount(s) /\ UNCHANGED <<rbVars, cfgVars, setVars, reqVars, argVars, dlVars, lockVars>>
        \/ SupSetRestarting(s) /\ UNCHANGED <<rbVars, cfgVars, setVars, reqVars, argVars, dlVars, lockVars>>
        \/ SupSleep(s) /\ UNCHANGED <<rbVars, cfgVars, setVars, reqVars, argVars, dlVars, lockVars>>
    \/ StartInstance /\ UNCHANGED <<rbVars, cfgVars, setVars, reqVars, argVars, dlVars, lockVars>>
    \/ StopInstance /\ UNCHANGED <<rbVars, cfgVars, setVars, reqVars, argVars, dlVars, lockVars>>
    \/ RestartReset /\ UNCHANGED <<rbVars, cfgVars, setVars, reqVars, argVars, dlVars, lockVars>>
    \/ RestartStop /\ UNCHANGED <<rbVars, cfgVars, setVars, reqVars, argVars, dlVars, lockVars>>
    \/ RestartSupervise /\ UNCHANGED <<rbVars, cfgVars, setVars, reqVars, argVars, dlVars, lockVars>>
    \/ RemoveUnlink /\ UNCHANGED <<rbVars, cfgVars, setVars, reqVars, argVars, dlVars, lockVars>>
    \/ RemoveStop /\ UNCHANGED <<rbVars, cfgVars, setVars, reqVars, argVars, dlVars, lockVars>>
    \/ ShutdownClose /\ UNCHANGED <<rbVars, cfgVars, setVars, reqVars, argVars, dlVars, lockVars>>
    \/ ShutdownStop /\ UNCHANGED <<rbVars, cfgVars, setVars, reqVars, argVars, dlVars, lockVars>>
    \/ ShutdownReturn /\ UNCHANGED <<rbVars, cfgVars, setVars, reqVars, argVars, dlVars, lockVars>>

Init == RingParked /\ CfgParked /\ SetParked /\ ReqParked /\ ArgParked /\ DlInit /\ LockParked /\ SupInit

Spec == Init /\ [][Next]_vars

\* Every step supervisor loop s can take.
SupStep(s) ==
    \/ SupTop(s)
    \/ SupStart(s)
    \/ SupWait(s)
    \/ SupIncr(s)
    \/ SupCount(s)
    \/ SupSetRestarting(s)
    \/ SupSleep(s)

\* Scheduling: a goroutine that can run does run (the supervisor loops and
\* the goroutine calling Shutdown). Children need not ever exit.
Fairness ==
    /\ \A s \in Sups : WF_vars(SupStep(s) /\ UNCHANGED <<rbVars, cfgVars, setVars, reqVars, argVars, dlVars, lockVars>>)
    /\ WF_vars(ShutdownStop /\ UNCHANGED <<rbVars, cfgVars, setVars, reqVars, argVars, dlVars, lockVars>>)
    /\ WF_vars(ShutdownReturn /\ UNCHANGED <<rbVars, cfgVars, setVars, reqVars, argVars, dlVars, lockVars>>)

\* The program after NewManager and StartAll and one StopInstance request
\* that found the instance still stopped (a no-op), with the supervisor loop
\* not yet at its first Start: a state Spec reaches in one step.
InitFair ==
    /\ RingParked /\ CfgParked /\ SetParked /\ ReqParked /\ ArgParked /\ DlInit /\ LockParked
    /\ state = StateStopped
    /\ cmd = 0
    /\ stopCh = 0
    /\ restartCount = 0
    /\ lastError = ""
    /\ closes = [c \in Children |-> 0]
    /\ proc = [c \in Children |-> "none"]
    /\ managed = TRUE
    /\ hl = [c \in Children |-> [pc |-> "off", ch |-> 0]]
    /\ op = [pc |-> "idle", n |-> 1, last |-> "stop", from |-> StateStopped, status |-> 200]
    /\ shut = "no"
    /\ MaxRestarts \in {0, MaxR}
    /\ sup = [s \in Sups |-> [pc |-> IF s = 1 THEN "top" ELSE "off", ch |-> 0]]

FairSpec == InitFair /\ [][Next]_vars /\ Fairness

\* Every step task t can take without waiting for a lock.
TaskStep(t) == Begin(t) \/ Release(t)

LocksNext ==
    \E t \in Tasks :
        \/ Begin(t) /\ UNCHANGED <<rbVars, cfgVars, setVars, reqVars, argVars, dlVars, supAll>>
        \/ Acquire(t) /\ UNCHANGED <<rbVars, cfgVars, setVars, reqVars, argVars, dlVars, supAll>>
        \/ Release(t) /\ UNCHANGED <<rbVars, cfgVars, setVars, reqVars, argVars, dlVars, supAll>>

InitLocks == RingParked /\ CfgParked /\ SetParked /\ ReqParked /\ ArgParked /\ DlInit /\ LockParked /\ SupParked

SpecLocks == InitLocks /\ [][LocksNext]_vars

\* Scheduling: a task that is not in Lock or RLock goes on (no task waits for
\* anything but a lock while it holds one), and a task in Lock gets the lock
\* if the lock is free again and again (sync.Mutex hands the lock to a waiter
\* that has waited for 1 ms).
LockFairness ==
    \A t \in Tasks :
        /\ WF_vars(TaskStep(t) /\ UNCHANGED <<rbVars, cfgVars, setVars, reqVars, argVars, dlVars, supAll>>)
        /\ SF_vars(Acquire(t) /\ UNCHANGED <<rbVars, cfgVars, setVars, reqVars, argVars, dlVars, supAll>>)

FairLocks == InitLocks /\ [][LocksNext]_vars /\ LockFairness

(***************************************************************************)
(* Properties                                                              *)
(***************************************************************************)

Min(a, b) == IF a < b THEN a ELSE b

\* C1 (SpecStore): starting from a store with pairwise distinct names and
\* pairwise distinct ports, after any sequence of AddInstance, UpdateInstance
\* and DeleteInstance calls, successful or failed, the stored list still has
\* pairwise distinct names and pairwise distinct ports.
C1_UniqueNamesAndPorts == UniqueNames(Instances) /\ UniquePorts(Instances)

\* A store of two entries in which a call was just refused for its port.
C1_Witness == Len(Instances) >= 2 /\ cfgErr = "duplicate port"

\* C2 (SpecHTTP): every configuration the program has accepted, read by
\* loadConfig or changed through POST or PUT, has unique names, unique ports
\* and at least one device id on every instance.
C2_AcceptedConfigValid ==
    loaded =>
        /\ UniqueNames(Instances)
        /\ UniquePorts(Instances)
        /\ \A i \in 1 .. Len(Instances) : Len(Instances[i].GPUIDs) >= 1

\* C3 (Spec): whenever the instance's state is starting or running, the
\* instance holds the handle of a child process.
C3_RunningHasChild ==
    state \in {StateStarting, StateRunning} => cmd # 0

\* C4 (Spec): with max_restarts > 0 and no operator request or shutdown, a
\* supervisor that has given up leaves the instance in crashed.
C4_GaveUpLeavesCrashed ==
    (MaxRestarts > 0 /\ op.n = 0 /\ shut = "no" /\ sup[1].pc = "gaveup")
        => state = StateCrashed

\* C5 (Spec): with max_restarts = 0, no operator request and no shutdown, the
\* supervisor's Start after the restart delay is never refused, so the
\* supervisor never stops restarting.
C5_RestartNeverRefused ==
    (MaxRestarts = 0 /\ op.n = 0 /\ shut = "no") => sup[1].pc # "refused"

\* C6 (Spec): after StopInstance found the instance in back-off (restarting),
\* and with no later operator request or shutdown, no new child is running.
C6_NoChildAfterStop ==
    (op.last = "stop" /\ op.from = StateRestarting /\ op.n = 1 /\ shut = "no")
        => \A c \in Children : proc[c] # "run"

\* C7 (Spec): every call of Instance.Stop leaves the state stopped, and a call
\* on an instance already stopped changes neither state, child handle, stop
\* channel, restart count nor lastError and signals no child; so a second
\* Stop adds nothing to the first.
C7_StopOnStoppedNoOp ==
    [][(\/ StopInstance
        \/ RestartStop
        \/ RemoveStop
        \/ managed /\ ShutdownStop
        \/ \E s \in Sups : SupWait(s) /\ sup'[s].pc = "shutdown")
       => /\ state' = StateStopped
          /\ state = StateStopped => UNCHANGED <<instVars, proc>>]_vars

\* Stopped by two operator requests in a row, the killed child not yet
\* reaped: the second Stop found the instance stopped and holding a handle.
C7_Witness ==
    /\ state = StateStopped
    /\ cmd # 0
    /\ proc[cmd] = "killed"
    /\ op = [pc |-> "idle", n |-> 2, last |-> "remove", from |-> "", status |-> 0]
    /\ sup[2].pc = "off"

\* C8 (SpecRing): after N appends to a buffer of capacity C, Lines() is the
\* sequence of the last min(N, C) appended lines, oldest first, and taking the
\* snapshot leaves the buffer as it was.
C8_LinesAreLastAppended ==
    /\ [](/\ Len(Lines) = Min(Len(appended), size)
          /\ Lines = LastN(appended, Min(Len(appended), size)))
    /\ [][snapshot' # snapshot =>
            /\ snapshot' = LastN(appended, Min(Len(appended), size))
            /\ UNCHANGED <<lines, size, pos, full>>]_vars

\* A snapshot of a buffer that has wrapped past its first slot.
C8_Witness ==
    /\ Len(appended) > size
    /\ pos > 0
    /\ Len(snapshot) = size
    /\ snapshot = Lines

\* C9 (SpecDownload): at most one job has status downloading, and a Start
\* made while the active job is downloading returns an error and leaves the
\* slot and every job (identity, repo, quant, status, logs, child) unchanged.
C9_SingleDownload ==
    /\ [](Cardinality({j \in JobIds : jobs[j].Status = "downloading"}) <= 1)
    /\ [][(active # 0 /\ jobs[active].Status = "downloading" /\ dlErr' # dlErr)
            => /\ dlErr' # ""
               /\ UNCHANGED <<active, jobs>>]_vars

\* A Start was just refused because the active job is downloading.
C9_Witness ==
    /\ dlErr = "download already in progress"
    /\ active # 0
    /\ jobs[active].Status = "downloading"

\* C10 (SpecDownload): a Start made with no job, or with the active job done,
\* failed or stopped, can succeed; when it does the slot holds a new job in
\* status downloading for the requested repo and quant whose child was given
\* -hf repo[:quant] --port 0, and GetStatus reports Active; Start is refused
\* as busy only while the active job is downloading; and Active is true
\* exactly when the active job's status is downloading.
C10_StartReplacesSlot ==
    /\ [](GetStatus.Active <=> (active # 0 /\ jobs[active].Status = "downloading"))
    /\ []((((active = 0) \/ (jobs[active].Status \in {"done", "failed", "stopped"}))
            /\ (\E j \in JobIds : jobs[j].proc = "none"))
                => ENABLED (DownloadStart /\ active' # active))
    /\ [][/\ active' # active =>
                /\ active = 0 \/ jobs[active].Status \in {"done", "failed", "stopped"}
                /\ jobs[active'].proc = "none"
                /\ jobs'[active'].Status = "downloading"
                /\ jobs'[active'].Logs = <<>>
                /\ jobs'[active'].proc = "run"
                /\ \E repo \in Repos, quant \in Quants :
                    /\ jobs'[active'].Repo = repo
                    /\ jobs'[active'].Quant = quant
                    /\ jobs'[active'].args =
                        <<"-hf", IF quant = "" THEN repo ELSE repo \o ":" \o quant,
                          "--port", "0">>
                /\ GetStatus'.Active
                /\ dlErr' = ""
          /\ (dlErr' = "download already in progress" /\ dlErr' # dlErr) =>
                (active # 0 /\ jobs[active].Status = "downloading")]_vars

\* A job without a quant replaced a finished job in the slot.
C10_Witness ==
    /\ active # 0
    /\ jobs[active].Status = "downloading"
    /\ jobs[active].Quant = ""
    /\ jobs[active].args = <<"-hf", "x/y", "--port", "0">>
    /\ \E j \in JobIds :
        j # active /\ jobs[j].Status \in {"done", "failed", "stopped"}

\* C11 (SpecDownload): a job's status becomes failed only from downloading;
\* in particular a job that the completion heuristic has marked done keeps
\* that status when its child, killed by the heuristic, exits with an error.
C11_FailedOnlyFromDownloading ==
    [][\A j \in JobIds :
        (jobs'[j].Status = "failed" /\ jobs[j].Status # "failed")
            => jobs[j].Status = "downloading"]_vars

\* C12 (SpecDownload): a job whose status is stopped keeps that status in
\* every later state.
C12_StoppedStaysStopped ==
    [][\A j \in JobIds :
        jobs[j].Status = "stopped" => jobs'[j].Status = "stopped"]_vars

C14_StoppedAfterShutdown ==
    (/\ shut = "returned"
     /\ managed
     /\ op.n = 0
     /\ \A k \in Children : hl[k].pc \in {"off", "init"})
        => /\ state = StateStopped
           /\ \A c \in Children : proc[c] # "run"

\* C15 (Spec): after RemoveInstance, the only operator request made, has
\* unlinked and stopped the instance and returned, and before any shutdown,
\* the removed instance has no running child.
C15_NoChildAfterRemove ==
    (~managed /\ op.pc = "idle" /\ op.n = 1 /\ shut = "no")
        => \A c \in Children : proc[c] # "run"

\* C16 (Spec): after one StartInstance request, the only operator request
\* made, the instance never has two supervisor loops that both got past
\* Start.
C16_OneSupervisorLoop ==
    (op.n = 1 /\ op.last = "start")
        => ~(/\ sup[1].pc \in {"wait", "incr", "count", "setr", "sleep"}
             /\ sup[2].pc \in {"wait", "incr", "count", "setr", "sleep"})

\* C17 (SpecStore): an AddInstance, UpdateInstance or DeleteInstance call
\* that returns an error leaves the in-memory instance list unchanged.
C17_ErrorLeavesListUnchanged ==
    [][cfgErr' # "" => Instances' = Instances]_vars

\* C18 (SpecStore): when AddInstance has added an entry, DeleteInstance of
\* that entry's name finds it and gives back the list as it was before the
\* add, in content and order.
C18_AddThenDeleteRestores ==
    [][Len(Instances') > Len(Instances) =>
        LET added == {n \in ConfNames :
                        /\ \E i \in 1 .. Len(Instances') : Instances'[i].Name = n
                        /\ \A i \in 1 .. Len(Instances) : Instances[i].Name # n}
        IN  /\ Cardinality(added) = 1
            /\ \A n \in added :
                /\ IndexOfName(Instances', n) # 0
                /\ RemoveAt(Instances', IndexOfName(Instances', n)) = Instances]_vars

\* An entry was added to a list of at least one entry and saved, and was then
\* deleted again with the save failing: the file still shows the added entry
\* after the entries of the restored list.
C18_Witness ==
    /\ cfgErr = "write failed"
    /\ Len(Instances) >= 1
    /\ Len(cfgFile.instances) = Len(Instances) + 1
    /\ \A i \in 1 .. Len(Instances) : cfgFile.instances[i].name = Instances[i].Name

\* A restart would load what the store holds now.
FileMatches ==
    /\ loadConfigErr(cfgFile) = ""
    /\ loadConfigValue(cfgFile, setFile) = [settings |-> settings, instances |-> Instances]

\* C19 as stated: the file always equals the state after the latest completed
\* mutation, so whenever the last settings call and the last instance call
\* both succeeded, re-parsing the file yields the in-memory settings and
\* instance list.
C19_FileAlwaysLatest ==
    (cfgErr = "" /\ setErr \in {"", NoCall}) => FileMatches

\* C19 amended: every successful UpdateSettings, AddInstance, UpdateInstance
\* or DeleteInstance leaves a file whose re-parse yields exactly the settings
\* and the instance list the store holds after the call, whatever imports and
\* failed calls came before it.
C19_SuccessfulMutationPersists ==
    [][(\/ PutSettings /\ setErr' = ""
        \/ (SetAdd \/ SetUpdate \/ SetDelete) /\ cfgErr' = "") => FileMatches']_vars

C19_Witness ==
    /\ httpStatus = 200
    /\ setErr = ""
    /\ cfgErr = ""
    /\ Len(Instances) = 1
    /\ settings.ServerBin = "/usr/bin/llama-server"
    /\ settings.RestartDelay = 1500
    /\ setFile.restart_delay = "1.5s"
    /\ FileMatches

\* A duration text that is given and does not parse or is not positive.
BadDuration(str) ==
    str # "" /\ (~ParseDurationOk(str) \/ ParseDuration(str) <= 0)

\* The rules as C20 lists them: any gpu_backend outside the five breaks one.
ListedRuleBroken(s) ==
    \/ s.MaxRestarts < 0
    \/ s.NGL < 0
    \/ s.MainGPU < 0
    \/ s.ContextLength <= 0
    \/ s.GPUBackend \notin ValidBackends
    \/ BadDuration(s.RestartDelay)
    \/ BadDuration(s.HealthCheckInterval)

\* The rules with the backend rule applying to a non-empty gpu_backend only.
RuleBroken(s) ==
    \/ s.MaxRestarts < 0
    \/ s.NGL < 0
    \/ s.MainGPU < 0
    \/ s.ContextLength <= 0
    \/ (s.GPUBackend # "" /\ s.GPUBackend \notin ValidBackends)
    \/ BadDuration(s.RestartDelay)
    \/ BadDuration(s.HealthCheckInterval)

\* C20 as stated: once UpdateSettings has returned for a request, it has
\* returned an error (and PUT /api/settings has answered 400) exactly when
\* the request breaks one of the listed rules, an empty gpu_backend being
\* outside the five names; it has succeeded for every other request.
C20_ErrorIffListedRuleBroken ==
    setErr # NoCall =>
        /\ (setErr # "") <=> ListedRuleBroken(setReq)
        /\ (SettingsStatus = 400) <=> ListedRuleBroken(setReq)

\* C20 amended: UpdateSettings returns an error (and PUT answers 400)
\* whenever max_restarts < 0, ngl < 0, main_gpu < 0, context_length <= 0, a
\* non-empty gpu_backend is outside the five names, or a non-empty duration
\* does not parse or is not positive; for every other request, an empty
\* gpu_backend included, it succeeds unless writing the file fails.
C20_ErrorWhenRuleBroken ==
    setErr # NoCall =>
        /\ RuleBroken(setReq) => (setErr \notin {"", "write failed"} /\ SettingsStatus = 400)
        /\ ~RuleBroken(setReq) => setErr \in {"", "write failed"}
        /\ (SettingsStatus = 200) <=> (setErr = "")

C20_Witness ==
    /\ setErr = ""
    /\ setReq.GPUBackend = ""
    /\ setReq.RestartDelay = "1500ms"
    /\ settings.RestartDelay = 1500
    /\ settings.MaxRestarts = 0
    /\ SettingsStatus = 200

\* C21: a request whose method is not GET, HEAD or OPTIONS and whose Origin
\* is non-empty and is neither http://<Host> nor https://<Host> is answered
\* 403 and changes nothing in the store or the manager; every other request
\* (GET, HEAD, OPTIONS, an empty Origin, or an Origin naming the Host) is
\* passed to the router, which never answers 403.
C21_OriginGate ==
    [][req' \in Requests /\ (req' # req \/ httpStatus' # httpStatus) =>
        IF /\ req'.method \notin {"GET", "HEAD", "OPTIONS"}
           /\ req'.origin # ""
           /\ req'.origin \notin {"http://" \o req'.host, "https://" \o req'.host}
        THEN /\ httpStatus' = 403
             /\ UNCHANGED <<Instances, cfgFile, loaded, mInstances, byName, cfgErr>>
        ELSE /\ httpStatus' # 403
             /\ Mux(req')]_vars

C21_Witness ==
    /\ httpStatus = 403
    /\ req.method = "DELETE"
    /\ req.origin = "http://evil.example"
    /\ req.host = "mgr:8080"
    /\ Len(Instances) = 1
    /\ Len(mInstances) = 1

\* C22: whenever POST /api/config/instances or PUT
\* /api/config/instances/{name} reaches the store and the store refuses the
\* body for a duplicate name or a duplicate port, the response status is 409;
\* a body missing a required field is answered 400 and never reaches the store.
C22_DuplicateIs409 ==
    [][(/\ PostConfigInstance \/ PutConfigInstance
        /\ UniqueNames(Instances) /\ UniquePorts(Instances)
        /\ cfgErr' \in {"duplicate instance name", "duplicate port"}
        /\ cfgErr' # cfgErr) => httpStatus' = 409]_vars

\* C23: when the Start made for POST /api/instances/{name}/start fails (the
\* instance is already starting or running, or the spawn fails), the response
\* to that request is not a success status. The request here is the first
\* one, so its supervisor loop is the second loop.
C23_StartErrorSurfaced ==
    (/\ op.n = 1
     /\ op.last = "start"
     /\ sup[2].pc \in {"refused", "startfailed"}) => op.status # 200

\* Sequence `part` occurs in sequence `whole` as a run of neighbours.
Contains(whole, part) ==
    \E i \in 0 .. Len(whole) - Len(part) :
        \A j \in 1 .. Len(part) : whole[i + j] = part[j]

\* 1/n rounded to two decimals, as text, for n >= 1; an exact half goes to
\* the even neighbour.
TwoDecimals(n) ==
    LET up == (200 + n) \div (2 * n)
        h == IF (200 % (2 * n)) = n /\ up % 2 = 1 THEN up - 1 ELSE up
        digit(d) == CASE d = 0 -> "0" [] d = 1 -> "1" [] d = 2 -> "2" [] d = 3 -> "3"
                      [] d = 4 -> "4" [] d = 5 -> "5" [] d = 6 -> "6" [] d = 7 -> "7"
                      [] d = 8 -> "8" [] OTHER -> "9"
    IN IF h = 100 THEN "1.00" ELSE "0." \o digit(h \div 10) \o digit(h % 10)

\* C24: for every backend and every non-empty device list of length N, the
\* built argument vector contains -mg 0 --tensor-split r,...,r (N copies of
\* 1/N to two decimals) exactly when the backend is not metal and N >= 2; with
\* such a backend and N = 1 it contains -mg <main_gpu> and no --tensor-split;
\* with metal it contains neither; --metrics is the last argument; and the
\* backend's variable, when there is one, holds the comma-joined device ids.
C24_GPUArguments ==
    launch.built =>
        LET in == launch.in
            N == Len(in.ids)
            hasEnv == in.backend # "metal"
            split == <<"-mg", "0", "--tensor-split",
                       Join([i \in 1 .. N |-> TwoDecimals(N)])>>
            args == launch.args
            words == {args[i] : i \in 1 .. Len(args)}
        IN /\ Contains(args, split) <=> (hasEnv /\ N >= 2)
           /\ (hasEnv /\ N = 1) =>
                (Contains(args, <<"-mg", Itoa(in.mainGPU)>>) /\ "--tensor-split" \notin words)
           /\ ~hasEnv => ("-mg" \notin words /\ "--tensor-split" \notin words)
           /\ args[Len(args)] = "--metrics"
           /\ hasEnv => (launch.env.name # "" /\
                         launch.env.value = Join([i \in 1 .. N |-> Itoa(in.ids[i])]))
           /\ ~hasEnv => launch.env.name = ""

C24_Witness ==
    /\ launch.built
    /\ launch.in.backend = "cuda"
    /\ launch.in.ids = <<0, 1, 1>>
    /\ Contains(launch.args, <<"-mg", "0", "--tensor-split", "0.33,0.33,0.33", "-ctk">>)
    /\ launch.env = [name |-> "CUDA_VISIBLE_DEVICES", value |-> "0,1,1"]

\* C25: the state becomes running only from starting: no step of the probe
\* loop, under any interleaving with Stop, child exit and the supervisor,
\* moves a stopped, crashed or restarting instance to running.
C25_RunningOnlyFromStarting ==
    [][(state' = StateRunning /\ state # StateRunning) => state = StateStarting]_vars

\* C26: when the exit observer of child c runs while the instance is starting
\* or running, it sets the state to crashed with a non-empty lastError,
\* closes the stop channel of c's incarnation (and no other) and clears the
\* child handle; when the only operator request so far is a stop that found
\* the instance not stopped, the observer of the killed child leaves the
\* state stopped and lastError as it was.
C26_ExitObserverEffect ==
    [][\A c \in Children :
        (proc[c] = "exited" /\ proc'[c] = "reaped") =>
            /\ state \in {StateStarting, StateRunning} =>
                /\ state' = StateCrashed
                /\ lastError' # ""
                /\ cmd' = 0
                /\ stopCh' = 0
                /\ closes'[c] = 1
                /\ \A k \in Children \ {c} : closes'[k] = closes[k]
            /\ (op.n = 1 /\ op.last = "stop" /\ op.from # StateStopped /\ shut = "no") =>
                (state' = StateStopped /\ lastError' = lastError)]_vars

\* C27: no stop channel is closed twice; an incarnation whose child has been
\* reaped has had its stop channel closed; a stopped instance holds no open
\* stop channel; and a stop channel the instance no longer holds (set to nil,
\* or replaced by a later Start) has been closed.
C27_StopChClosedOnce ==
    /\ \A c \in Children : closes[c] <= 1
    /\ \A c \in Children : proc[c] = "reaped" => closes[c] = 1
    /\ state = StateStopped => stopCh = 0
    /\ \A c \in Children : (proc[c] # "none" /\ stopCh # c) => closes[c] = 1

\* C28: the health-probe loop started after the Start of incarnation k waits
\* on the stop channel of incarnation k and on no other, so no two loops wait
\* on the same stop channel. Stated for the runs without operator requests
\* and without Shutdown, where one supervisor loop makes every Start.
C28_ProbeLoopOwnIncarnation ==
    (op.n = 0 /\ shut = "no") =>
        /\ \A k \in Children : hl[k].ch \in {0, k}
        /\ \A j, k \in Children : (j # k /\ hl[j].ch # 0) => hl[j].ch # hl[k].ch

\* C29: a Start that fails (refused because the instance is starting or
\* running, or a pipe or spawn error) leaves state, child handle, lastError
\* and stop channel unchanged, spawns nothing, and the supervisor loop that
\* called it has returned: it takes no further step.
C29_FailedStartChangesNothing ==
    [][\A s \in Sups :
        /\ (sup[s].pc = "start" /\ sup'[s].pc \in {"refused", "startfailed"}) =>
                /\ UNCHANGED <<state, cmd, stopCh, lastError, restartCount, closes, proc, hl>>
                /\ sup'[s].pc = "refused" <=> state \in {StateStarting, StateRunning}
        /\ sup[s].pc \in {"refused", "startfailed"} => sup'[s] = sup[s]]_vars

\* A loop refused by a running instance, and still there after the instance
\* has been stopped: it did not retry.
C29_Witness ==
    /\ sup[2].pc = "refused"
    /\ sup[1].pc = "sawstopped"
    /\ state = StateStopped
    /\ op.n = 2
    /\ op.last = "stop"
    /\ op.from = StateRunning

\* C30: an UpdateSettings call that returns a validation error (any error
\* other than a failed write of the file) leaves every setting unchanged and
\* writes nothing to the config file.
C30_ValidationErrorChangesNothing ==
    [][(PutSettings /\ setErr' \notin {"", "write failed"}) =>
            UNCHANGED <<settings, cfgFile, setFile>>]_vars

\* The names a config store's list holds.
NameSet(list) == {list[i].Name : i \in 1 .. Len(list)}

\* C31 (SpecHTTP): a completed POST /api/config/instances, PUT or DELETE
\* /api/config/instances/{name}, accepted or rejected, that begins with the
\* manager's runtime index holding exactly the names of the config store
\* (names and ports distinct) ends with the index holding exactly the names of
\* the store; a rejected PUT leaves the runtime instance in place. Requests
\* whose write of the config file fails are left aside.
C31_RuntimeIndexMatchesStore ==
    [][(/\ PostConfigInstance \/ PutConfigInstance \/ DeleteConfigInstance
        /\ UniqueNames(Instances) /\ UniquePorts(Instances)
        /\ byName = NameSet(Instances)
        /\ cfgErr' # "write failed")
            => byName' = NameSet(Instances')]_vars

\* The value a field of the live config has after an import: the uploaded
\* one when it is set, else the old one.
Taken(set, uploaded, old) == IF set THEN uploaded ELSE old

\* C32 (SpecSettings): a POST /api/config/import answered 200 leaves the file
\* equal to one of the uploads; in memory server_bin, host, gpu_backend and
\* the cache types take the uploaded value when it is non-empty,
\* restart_delay, health_check_interval, max_restarts, ngl and context_length
\* take it when it is positive, and each is unchanged otherwise;
\* manager_port, main_gpu, the instance list and the manager's instances are
\* unchanged. An import answered 400 changes neither the file nor the config
\* in memory.
C32_ImportAppliesSubset ==
    [][(ConfigImport /\ httpStatus' = 200 =>
            \E data \in Uploads :
                LET t == UnmarshalSettings(data.server_bin, data.scalars, ZeroSettings) IN
                /\ data.ok
                /\ cfgFile' = [ok |-> TRUE, server_bin |-> data.server_bin,
                               instances |-> data.instances]
                /\ setFile' = data.scalars
                /\ settings'.ServerBin =
                       Taken(t.ServerBin # "", t.ServerBin, settings.ServerBin)
                /\ settings'.Host = Taken(t.Host # "", t.Host, settings.Host)
                /\ settings'.GPUBackend =
                       Taken(t.GPUBackend # "", t.GPUBackend, settings.GPUBackend)
                /\ settings'.CacheTypeK =
                       Taken(t.CacheTypeK # "", t.CacheTypeK, settings.CacheTypeK)
                /\ settings'.CacheTypeV =
                       Taken(t.CacheTypeV # "", t.CacheTypeV, settings.CacheTypeV)
                /\ settings'.RestartDelay =
                       Taken(t.RestartDelay > 0, t.RestartDelay, settings.RestartDelay)
                /\ settings'.HealthCheckInterval =
                       Taken(t.HealthCheckInterval > 0, t.HealthCheckInterval,
                             settings.HealthCheckInterval)
                /\ settings'.MaxRestarts =
                       Taken(t.MaxRestarts > 0, t.MaxRestarts, settings.MaxRestarts)
                /\ settings'.NGL = Taken(t.NGL > 0, t.NGL, settings.NGL)
                /\ settings'.ContextLength =
                       Taken(t.ContextLength > 0, t.ContextLength,
                             settings.ContextLength)
                /\ settings'.ManagerPort = settings.ManagerPort
                /\ settings'.MainGPU = settings.MainGPU
                /\ UNCHANGED <<Instances, mInstances, byName, supAll>>)
        /\ (ConfigImport /\ httpStatus' = 400 =>
                UNCHANGED <<cfgFile, setFile, settings, Instances, mInstances, byName>>)
      ]_vars

\* Right after an import of the valid upload: the file has the upload's
\* instance, main_gpu 1, manager_port 9000 and max_restarts 0; in memory the
\* host and the cache type are the uploaded ones, while the instance list,
\* main_gpu, manager_port and max_restarts are the old ones.
C32_Witness ==
    /\ httpStatus = 200
    /\ Len(cfgFile.instances) = 1
    /\ setFile.main_gpu = "1"
    /\ setFile.manager_port = "9000"
    /\ setFile.max_restarts = "0"
    /\ settings.Host = "10.0.0.1"
    /\ settings.CacheTypeK = "f16"
    /\ settings.CacheTypeV = "q8_0"
    /\ settings.MainGPU = 0
    /\ settings.ManagerPort = 8080
    /\ settings.MaxRestarts = 10
    /\ Instances = <<>>

\* C33 (Spec): at every moment at most one child process spawned for the
\* instance is live (spawned and not yet exited), whatever the interleaving of
\* supervisor loops and operator requests.
C33_AtMostOneLiveChild == Cardinality({c \in Children : Live(c)}) <= 1

\* C34 (Spec): when the exit of child c is observed after a later Start of
\* the instance has succeeded (the instance's handle is another child's), the
\* observer of c does not set the state to crashed, does not overwrite
\* lastError, does not close the later incarnation's stop channel and does not
\* clear the later incarnation's child handle.
C34_ObserverOwnIncarnation ==
    [][\A c \in Children :
        (proc[c] = "exited" /\ proc'[c] = "reaped" /\ cmd \notin {0, c}) =>
            /\ state' = state
            /\ lastError' = lastError
            /\ stopCh' = stopCh
            /\ closes' = closes
            /\ cmd' = cmd]_vars

\* The order of the nested acquisitions: the lock held, then the lock taken.
LockOrder ==
    {<<"Instance.mu", "Config.mu">>, <<"DownloadManager.mu", "DownloadJob.mu">>}

\* Task t is in Lock or RLock and the call cannot return now.
Blocked(t) == AtAcquire(t) /\ ~CanAcquire(t)

\* Task u keeps task t's call from returning: it holds the lock, or it is a
\* writer in Lock ahead of reader t.
Blocks(u, t) ==
    LET l == Cur(t).l IN
    \/ mu[l].w = u
    \/ u \in mu[l].r
    \/ Cur(t).m = "r" /\ u \in Writers(l)

\* A set of blocked tasks, each kept waiting by a task of the set.
Deadlocked(S) == S # {} /\ \A t \in S : Blocked(t) /\ \E u \in S : Blocks(u, t)

\* C35 (FairLocks): a task takes a lock while it holds another only in the
\* order Instance.mu then Config.mu, or DownloadManager.mu then
\* DownloadJob.mu (so Manager.mu is never held when another lock is taken);
\* no set of tasks waits for one another; and no task stays in Lock or RLock
\* for ever.
C35_NoDeadlock ==
    /\ [](\A t \in Tasks :
            AtAcquire(t) => \A x \in Held(t) : <<x, Cur(t).l>> \in LockOrder)
    /\ [](\A S \in SUBSET Tasks : ~Deadlocked(S))
    /\ \A t \in Tasks : []<>(~AtAcquire(t))

\* The supervisor's Start holds Instance.mu and Config.mu's read lock while
\* the import is in Lock on Config.mu and the probe loop and the exit
\* observer are in Lock on Instance.mu.
C35_Witness ==
    /\ mu["Instance.mu"].w = "supervisor"
    /\ "supervisor" \in mu["Config.mu"].r
    /\ Blocked("import") /\ Cur("import") = Lock("Config.mu")
    /\ Blocked("probe")
    /\ Blocked("observer")
====
